---- MODULE Spec2Model ----
(***************************************************************************)
(* A model of the sequence-and-target dataset layer of CREsted:            *)
(* SequenceLoader, IndexManager, AnnDataset and MetaAnnDataset of          *)
(* src/src/crested/tl/data/_dataset.py.                                    *)
(*                                                                         *)
(* Python strings (region identifiers, DNA sequences) are sequences of     *)
(* one-character strings, so that formatting a region with an f-string and *)
(* parsing it back with str.split / int are computed, not assumed.         *)
(* A Python call that may raise is an operator that returns a record with  *)
(* an err field ("none", "ValueError", "KeyError", ...) beside its value.  *)
(***************************************************************************)
EXTENDS Integers, Sequences, FiniteSets, TLC

VARIABLES
    constructed,                \* "no" before the constructor ran, then "ok" or its exception
    chromLen,                   \* length of the genome's chromosome chr1
    chromsizes,                 \* Genome.chrom_sizes: chromosome name -> size (maybe empty)
    max_stochastic_shift,       \* SequenceLoader.max_stochastic_shift
    in_memory,                  \* SequenceLoader.in_memory
    always_reverse_complement,  \* SequenceLoader/IndexManager.always_reverse_complement
    deterministic_shift,        \* SequenceLoader/IndexManager.deterministic_shift
    indices,                    \* the logical region list (SequenceLoader.regions, IndexManager.indices)
    sequences,                  \* SequenceLoader.sequences: the in-memory cache
    fetches,                    \* the genome.fetch calls made by the last operation
    lastCall,                   \* the last get_sequence call: arguments and outcome
    adata,                      \* the AnnData object the caller constructs the dataset from
    split,                      \* AnnDataset.split: the requested split, "None" for none
    anndata,                    \* AnnDataset.anndata: the split-filtered copy
    index_map,                  \* AnnDataset.index_map: region -> column of anndata.X
    random_reverse_complement,  \* AnnDataset.random_reverse_complement
    shuffle,                    \* AnnDataset.shuffle, set by the wrapping data loader
    augmented_indices,          \* IndexManager.augmented_indices
    augmented_indices_map,      \* IndexManager.augmented_indices_map
    origins,                    \* for each augmented index, the position in indices of the
                                \* region it was generated from (kept beside the list)
    augmented_probs,            \* AnnDataset.augmented_probs: [none, val]
    shuffle_i,                  \* np.random.shuffle in progress: its loop index, else 0
    lastItem,                   \* the last __getitem__ call: arguments and outcome
    datasets,                   \* the constructed AnnDataset objects to be merged
    metaConstructed,            \* "no", "ok", or the exception MetaAnnDataset() raised
    global_indices,             \* MetaAnnDataset.global_indices: rows <<ds_idx, local_i>>
    global_probs,               \* MetaAnnDataset.global_probs
    lastMetaItem,               \* the last MetaAnnDataset.__getitem__ call and its outcome
    generator,                  \* the generator __call__() returned: "none", "created",
                                \* "suspended" at its yield, "done", or the exception it raised
    gen_i,                      \* the generator's loop variable i
    gen_len,                    \* the generator's range(len(self)): its length
    yielded,                    \* the samples the generator yielded so far: [idx, key]
    pass_shuffles,              \* the shuffle_indices calls the generator made
    passes,                     \* the number of __call__() invocations so far
    rc_sequence,                \* a DNA string handed to _reverse_complement
    rc_result,                  \* the string after rc_applied applications
    rc_applied,                 \* how often _reverse_complement was applied to it
    varp_keys,                  \* the constructor argument varp_keys
    varp_data,                  \* AnnDataset.varp_data: key -> matrix, a row per region
    swap_j,                     \* np.random.shuffle inside x[i], x[j] = x[j], x[i]: j + 1
                                \* after the first store, 0 otherwise
    swap_tmp,                   \* the element that the second store will write to x[j]
    second,                     \* a second generator over the same dataset: its state,
    second_i,                   \* its loop variable i,
    second_len,                 \* its range(len(self)),
    second_yielded              \* and the samples it yielded so far

loaderVars == <<constructed, chromLen, chromsizes, max_stochastic_shift, in_memory,
                always_reverse_complement, deterministic_shift, indices, sequences,
                fetches, lastCall>>

datasetVars == <<adata, split, anndata, index_map, random_reverse_complement, shuffle,
                 augmented_indices, augmented_indices_map, origins, augmented_probs,
                 shuffle_i, lastItem>>

metaVars == <<datasets, metaConstructed, global_indices, global_probs, lastMetaItem>>

generatorVars == <<generator, gen_i, gen_len, yielded, pass_shuffles, passes>>

complementVars == <<rc_sequence, rc_result, rc_applied>>

varpVars == <<varp_keys, varp_data>>

swapVars == <<swap_j, swap_tmp>>

secondVars == <<second, second_i, second_len, second_yielded>>

vars == <<loaderVars, datasetVars, metaVars, generatorVars, complementVars, varpVars,
          swapVars, secondVars>>

(***************************************************************************)
(* Bounds of the model.                                                    *)
(***************************************************************************)
MaxChromLen == 5
MaxShift == 2
MaxStart == 4
MaxRegionLen == 2
MaxRegions == 2
MaxItemShift == 1
MaxShuffleLen == 5
MaxDatasets == 2
DatasetRegionLen == 2
DatasetChromLen == 300

(***************************************************************************)
(* Python strings and their methods.                                       *)
(***************************************************************************)
Max(a, b) == IF a > b THEN a ELSE b

Min(a, b) == IF a < b THEN a ELSE b

DigitChars == <<"0", "1", "2", "3", "4", "5", "6", "7", "8", "9">>

DigitSet == {DigitChars[i] : i \in 1..10}

DigitValue(c) == (CHOOSE i \in 1..10 : DigitChars[i] = c) - 1

RECURSIVE NatStr(_)
\* str(n) for n >= 0
NatStr(n) == IF n < 10 THEN <<DigitChars[n + 1]>>
             ELSE NatStr(n \div 10) \o <<DigitChars[(n % 10) + 1]>>

\* f"{n}" for an int: a minus sign in front of a negative number
IntStr(n) == IF n < 0 THEN <<"-">> \o NatStr(-n) ELSE NatStr(n)

RECURSIVE PyFind(_, _, _)
\* the first position >= from of character sep in s, or 0
PyFind(s, sep, from) ==
    IF from > Len(s) THEN 0
    ELSE IF s[from] = sep THEN from
    ELSE PyFind(s, sep, from + 1)

RECURSIVE PySplit(_, _)
\* s.split(sep) for a one-character separator: always at least one part
PySplit(s, sep) ==
    IF PyFind(s, sep, 1) = 0 THEN <<s>>
    ELSE <<SubSeq(s, 1, PyFind(s, sep, 1) - 1)>>
           \o PySplit(SubSeq(s, PyFind(s, sep, 1) + 1, Len(s)), sep)

RECURSIVE DigitsValue(_)
DigitsValue(s) == IF Len(s) = 0 THEN 0
                  ELSE 10 * DigitsValue(SubSeq(s, 1, Len(s) - 1)) + DigitValue(s[Len(s)])

AllDigits(s) == Len(s) > 0 /\ \A i \in 1..Len(s) : s[i] \in DigitSet

\* int(s): an optional sign and at least one digit, anything else raises ValueError
PyInt(s) ==
    IF AllDigits(s) THEN [err |-> "none", val |-> DigitsValue(s)]
    ELSE IF Len(s) > 1 /\ s[1] \in {"-", "+"} /\ AllDigits(Tail(s))
         THEN [err |-> "none",
               val |-> IF s[1] = "-" THEN 0 - DigitsValue(Tail(s)) ELSE DigitsValue(Tail(s))]
    ELSE [err |-> "ValueError", val |-> 0]

\* s[a:b] with Python's treatment of negative and out-of-range indices
SliceIndex(i, n) == IF i < 0 THEN Max(0, i + n) ELSE Min(i, n)

PySlice(s, a, b) ==
    IF SliceIndex(b, Len(s)) <= SliceIndex(a, Len(s)) THEN <<>>
    ELSE SubSeq(s, SliceIndex(a, Len(s)) + 1, SliceIndex(b, Len(s)))

Repeat(c, n) == [i \in 1..n |-> c]

\* s.ljust(width, c) and s.rjust(width, c)
LJust(s, width, c) == IF Len(s) >= width THEN s ELSE s \o Repeat(c, width - Len(s))

RJust(s, width, c) == IF Len(s) >= width THEN s ELSE Repeat(c, width - Len(s)) \o s

Reverse(s) == [i \in 1..Len(s) |-> s[Len(s) + 1 - i]]

UpperChar(c) ==
    CASE c = "a" -> "A" [] c = "c" -> "C" [] c = "g" -> "G" [] c = "t" -> "T"
      [] c = "n" -> "N" [] OTHER -> c

\* s.upper()
Upper(s) == [i \in 1..Len(s) |-> UpperChar(s[i])]

(***************************************************************************)
(* Region identifiers.                                                     *)
(***************************************************************************)
Chr1 == <<"c", "h", "r", "1">>

\* f"{chrom}:{start}-{end}"
UnstrandedRegion(chrom, start, end) == chrom \o <<":">> \o IntStr(start) \o <<"-">> \o IntStr(end)

\* f"{chrom}:{start}-{end}:{strand}"
StrandedRegion(chrom, start, end, strand) ==
    UnstrandedRegion(chrom, start, end) \o <<":">> \o strand

\* re.fullmatch(r".+:\d+-\d+", s)
MatchesUnstranded(s) ==
    \E c \in 2..Len(s) : \E d \in (c + 2)..(Len(s) - 1) :
        /\ s[c] = ":"
        /\ s[d] = "-"
        /\ AllDigits(SubSeq(s, c + 1, d - 1))
        /\ AllDigits(SubSeq(s, d + 1, Len(s)))

\* re.fullmatch(r".+:\d+-\d+:[-+]", s)
MatchesStranded(s) ==
    /\ Len(s) > 2
    /\ s[Len(s)] \in {"-", "+"}
    /\ s[Len(s) - 1] = ":"
    /\ MatchesUnstranded(SubSeq(s, 1, Len(s) - 2))

_check_strandedness(region) ==
    IF MatchesStranded(region) THEN [err |-> "none", val |-> TRUE]
    ELSE IF MatchesUnstranded(region) THEN [err |-> "none", val |-> FALSE]
    ELSE [err |-> "ValueError", val |-> FALSE]

_flip_region_strand(region) ==
    SubSeq(region, 1, Len(region) - 1)
        \o <<IF region[Len(region)] = "+" THEN "-" ELSE "+">>

BadRegion == [err |-> "ValueError", chrom |-> <<>>, start |-> 0, end |-> 0, strand |-> <<>>]

\* start, end = map(int, ...): both must be integers
ParsedInts(chrom, s, e, strand) ==
    IF s.err # "none" \/ e.err # "none" THEN BadRegion
    ELSE [err |-> "none", chrom |-> chrom, start |-> s.val, end |-> e.val, strand |-> strand]

\* start, end = start_end.split("-"): exactly two parts
ParsedStartEnd(chrom, se, strand) ==
    IF Len(se) # 2 THEN BadRegion
    ELSE ParsedInts(chrom, PyInt(se[1]), PyInt(se[2]), strand)

\* chrom, start_end, strand = parts: exactly three parts
ParsedParts(parts) ==
    IF Len(parts) # 3 THEN BadRegion
    ELSE ParsedStartEnd(parts[1], PySplit(parts[2], "-"), parts[3])

\* chrom, start_end, strand = region.split(":")
\* start, end = map(int, start_end.split("-"))
ParseRegion(region) == ParsedParts(PySplit(region, ":"))

\* n_shifts and stride: the defaults of _deterministic_shift_region, which every caller uses
n_shifts == 2

stride == 50

\* the loop of _deterministic_shift_region over the parsed region p
ShiftedRegions(p) ==
    IF p.err # "none" THEN [err |-> p.err, val |-> <<>>]
    ELSE [err |-> "none",
          val |-> [k \in 1..(2 * n_shifts + 1) |->
                     StrandedRegion(p.chrom,
                                    p.start + (k - 1 - n_shifts) * stride,
                                    p.end + (k - 1 - n_shifts) * stride,
                                    p.strand)]]

_deterministic_shift_region(region) == ShiftedRegions(ParseRegion(region))

(***************************************************************************)
(* The genome: one chromosome, chr1, of chromLen bases; soft-masked        *)
(* (lower-case) bases and N occur.                                         *)
(***************************************************************************)
GenomePattern == <<"A", "c", "G", "t", "N", "C", "a">>

\* the base at 0-based position p of chr1
GenomeBase(p) == GenomePattern[(p % 7) + 1]

\* the bases of [start, end) of chr1, end already cut to the chromosome
Bases(start, end) ==
    IF end <= start THEN <<>> ELSE [i \in 1..(end - start) |-> GenomeBase(start + i - 1)]

\* genome.fetch(chrom, start, end) of pysam.FastaFile: an unknown chromosome is a
\* KeyError, a negative start or start > end a ValueError, and an end past the
\* chromosome's last base is cut to it
Fetch(chrom, start, end) ==
    IF chrom # Chr1 THEN [err |-> "KeyError", val |-> <<>>]
    ELSE IF start < 0 \/ start > end THEN [err |-> "ValueError", val |-> <<>>]
    ELSE [err |-> "none", val |-> Bases(start, Min(end, chromLen))]

(***************************************************************************)
(* SequenceLoader                                                          *)
(***************************************************************************)
\* a table that maps G to C but C to itself
ComplementChar_OneWay(c) ==
    CASE c = "A" -> "T" [] c = "G" -> "C" [] c = "T" -> "A"
      [] OTHER -> c

\* str.maketrans("ACGT", "TGCA"): every other character is left as it is
ComplementChar(c) ==
    CASE c = "A" -> "T" [] c = "C" -> "G" [] c = "G" -> "C" [] c = "T" -> "A"
      [] OTHER -> c

_reverse_complement(sequence) ==
    Reverse([i \in 1..Len(sequence) |-> ComplementChar(sequence[i])])

\* a clamping that cuts the window at the chromosome's end and leaves its start
ClampedWindow_Shrinks(chrom, start, end, extended_start, extended_end) ==
    IF chrom \in DOMAIN chromsizes /\ extended_end > chromsizes[chrom]
    THEN [chrom |-> chrom, start |-> extended_start, end |-> chromsizes[chrom]]
    ELSE [chrom |-> chrom, start |-> extended_start, end |-> extended_end]

\* the clamping of _get_extended_sequence against the chromosome's size
ClampedWindow(chrom, start, end, extended_start, extended_end) ==
    IF chrom \in DOMAIN chromsizes /\ extended_end > chromsizes[chrom]
    THEN [chrom |-> chrom,
          start |-> chromsizes[chrom] - (end - start + max_stochastic_shift * 2),
          end   |-> chromsizes[chrom]]
    ELSE [chrom |-> chrom, start |-> extended_start, end |-> extended_end]

\* the window that _get_extended_sequence asks the genome for
ExtendedWindow(chrom, start, end) ==
    ClampedWindow(chrom, start, end,
                  Max(0, start - max_stochastic_shift),
                  Max(0, start - max_stochastic_shift) + (end - start)
                      + (max_stochastic_shift * 2))

\* seq = fetch(...).upper(), reverse-complemented on the - strand
FetchedSequence(f, w, strand) ==
    IF f.err # "none" THEN [err |-> f.err, val |-> <<>>, call |-> w]
    ELSE [err |-> "none",
          val |-> IF strand = <<"-">> THEN _reverse_complement(Upper(f.val))
                  ELSE Upper(f.val),
          call |-> w]

FetchWindow(w, strand) == FetchedSequence(Fetch(w.chrom, w.start, w.end), w, strand)

_get_extended_sequence(chrom, start, end, strand) ==
    FetchWindow(ExtendedWindow(chrom, start, end), strand)

\* d[k] = v on a dict
DictSet(d, k, v) == [x \in (DOMAIN d) \cup {k} |-> IF x = k THEN v ELSE d[x]]

EmptyDict == [x \in {} |-> <<>>]

\* a loader that caches the fetched sequence itself under the flipped key
CacheSequence_SameStrand(region, x) ==
    IF always_reverse_complement
    THEN <<[key |-> region, val |-> x.val, call |-> x.call],
           [key |-> _flip_region_strand(region), val |-> x.val, call |-> x.call]>>
    ELSE <<[key |-> region, val |-> x.val, call |-> x.call]>>

\* a loader that caches the fetched strand only
CacheSequence_ForwardOnly(region, x) ==
    <<[key |-> region, val |-> x.val, call |-> x.call]>>

\* self.sequences[region] = extended_sequence, and its reverse complement
\* under the flipped key if always_reverse_complement: the assignments made for
\* the region fetched as x, in order
CacheSequence(region, x) ==
    IF always_reverse_complement
    THEN <<[key |-> region, val |-> x.val, call |-> x.call],
           [key |-> _flip_region_strand(region), val |-> _reverse_complement(x.val),
            call |-> x.call]>>
    ELSE <<[key |-> region, val |-> x.val, call |-> x.call]>>

\* self.sequences after the assignments acc: a key holds its last assignment
SequencesOf(acc) ==
    [key \in {acc[k].key : k \in 1..Len(acc)} |->
        acc[CHOOSE k \in 1..Len(acc) :
               /\ acc[k].key = key
               /\ \A l \in 1..Len(acc) : acc[l].key = key => l <= k].val]

\* _load_sequences_into_memory ends with e after the assignments acc, the last
\* fetches being failed
Loaded(e, acc, failed) ==
    [err |-> e, sequences |-> SequencesOf(acc),
     fetches |-> {acc[k].call : k \in 1..Len(acc)} \cup failed]

RECURSIVE LoadRegions(_, _, _, _)
RECURSIVE LoadVariants(_, _, _, _, _, _)

\* one pass of the inner loop of _load_sequences_into_memory, the region fetched as x
LoadFetched(acc, regions, stranded, i, variants, j, x) ==
    IF x.err # "none" THEN Loaded(x.err, acc, {x.call})
    ELSE LoadVariants(acc \o CacheSequence(variants[j], x), regions, stranded, i,
                      variants, j + 1)

LoadParsed(acc, regions, stranded, i, variants, j, p) ==
    IF p.err # "none" THEN Loaded(p.err, acc, {})
    ELSE LoadFetched(acc, regions, stranded, i, variants, j,
                     _get_extended_sequence(p.chrom, p.start, p.end, p.strand))

\* the inner loop of _load_sequences_into_memory, from variant j on, and then
\* the rest of the outer loop
LoadVariants(acc, regions, stranded, i, variants, j) ==
    IF j > Len(variants) THEN LoadRegions(acc, regions, stranded, i + 1)
    ELSE LoadParsed(acc, regions, stranded, i, variants, j, ParseRegion(variants[j]))

\* the regions one region of the list is loaded as
LoadedVariants(region) ==
    IF deterministic_shift THEN _deterministic_shift_region(region)
    ELSE [err |-> "none", val |-> <<region>>]

LoadShifted(acc, regions, stranded, i, shifted) ==
    IF shifted.err # "none" THEN Loaded(shifted.err, acc, {})
    ELSE LoadVariants(acc, regions, stranded, i, shifted.val, 1)

\* one pass of the outer loop: a region that had no strand gets ":+", and must
\* not have had one after all
LoadRegion(acc, regions, stranded, i) ==
    IF stranded THEN LoadShifted(acc, regions, stranded, i, LoadedVariants(regions[i]))
    ELSE IF Len(regions[i]) + 2 < 4 THEN Loaded("IndexError", acc, {})
    ELSE IF regions[i][Len(regions[i]) - 1] = ":" THEN Loaded("ValueError", acc, {})
    ELSE LoadShifted(acc, regions, stranded, i,
                     LoadedVariants(regions[i] \o <<":", "+">>))

\* the outer loop of _load_sequences_into_memory, from region i on; acc holds the
\* assignments to self.sequences made so far
LoadRegions(acc, regions, stranded, i) ==
    IF i > Len(regions) THEN Loaded("none", acc, {})
    ELSE LoadRegion(acc, regions, stranded, i)

NothingLoaded == [err |-> "none", sequences |-> EmptyDict, fetches |-> {}]

LoadStranded(regions, st) ==
    IF st.err # "none" THEN [NothingLoaded EXCEPT !.err = st.err]
    ELSE LoadRegions(<<>>, regions, st.val, 1)

_load_sequences_into_memory(regions) ==
    IF Len(regions) = 0 THEN [NothingLoaded EXCEPT !.err = "IndexError"]
    ELSE LoadStranded(regions, _check_strandedness(regions[1]))

\* SequenceLoader.__init__: the cache is filled only when in_memory
SequenceLoaderInit(regions) ==
    IF in_memory THEN _load_sequences_into_memory(regions) ELSE NothingLoaded

NoSequence(e, calls) == [err |-> e, val |-> <<>>, extended |-> <<>>, fetches |-> calls]

\* a padding that always appends the Ns
Padded_AlwaysRight(sub_sequence, width, strand) ==
    IF Len(sub_sequence) < width THEN LJust(sub_sequence, width, "N")
    ELSE sub_sequence

\* pad with Ns if the crop is shorter than the region
Padded(sub_sequence, width, strand) ==
    IF Len(sub_sequence) < width
    THEN IF strand = <<"+">> THEN LJust(sub_sequence, width, "N")
         ELSE RJust(sub_sequence, width, "N")
    ELSE sub_sequence

\* a crop that ignores the shift: always the middle of the extended sequence
Cropped_IgnoresShift(x, p, shift) ==
    IF x.err # "none" THEN NoSequence(x.err, x.calls)
    ELSE [err |-> "none",
          val |-> Padded(PySlice(x.val, max_stochastic_shift,
                                 max_stochastic_shift + (p.end - p.start)),
                         p.end - p.start, p.strand),
          extended |-> x.val,
          fetches |-> x.calls]

\* the crop of the extended sequence x; p is the parsed region
Cropped(x, p, shift) ==
    IF x.err # "none" THEN NoSequence(x.err, x.calls)
    ELSE [err |-> "none",
          val |-> Padded(PySlice(x.val, max_stochastic_shift + shift,
                                 max_stochastic_shift + shift + (p.end - p.start)),
                         p.end - p.start, p.strand),
          extended |-> x.val,
          fetches |-> x.calls]

FromGenome(g) == [err |-> g.err, val |-> g.val, calls |-> {g.call}]

\* the extended sequence of the stranded region r: from the cache seqs, or from the genome
ExtendedOf(seqs, r, p) ==
    IF in_memory THEN [err |-> "none", val |-> seqs[r], calls |-> {}]
    ELSE FromGenome(_get_extended_sequence(p.chrom, p.start, p.end, p.strand))

GetParsed(seqs, r, p, shift) ==
    IF p.err # "none" THEN NoSequence(p.err, {})
    ELSE IF in_memory /\ r \notin DOMAIN seqs THEN NoSequence("KeyError", {})
    ELSE Cropped(ExtendedOf(seqs, r, p), p, shift)

GetStranded(seqs, region, st, shift) ==
    IF st.err # "none" THEN NoSequence(st.err, {})
    ELSE IF st.val THEN GetParsed(seqs, region, ParseRegion(region), shift)
    ELSE GetParsed(seqs, region \o <<":", "+">>, ParseRegion(region \o <<":", "+">>), shift)

\* get_sequence on a loader whose cache is seqs; stranded is "None", "True" or
\* "False". The result carries the extended sequence the crop was taken from
\* and the genome.fetch calls the call made.
GetSequenceFrom(seqs, region, stranded, shift) ==
    IF stranded = "None" THEN GetStranded(seqs, region, _check_strandedness(region), shift)
    ELSE GetStranded(seqs, region, [err |-> "none", val |-> (stranded = "True")], shift)

\* get_sequence(region, stranded, shift) on the constructed loader
get_sequence(region, stranded, shift) == GetSequenceFrom(sequences, region, stranded, shift)

(***************************************************************************)
(* Floats: a weight is the exact fraction n / d, d > 0, in lowest terms.   *)
(***************************************************************************)
RECURSIVE GCD(_, _)
GCD(a, b) == IF b = 0 THEN a ELSE GCD(b, a % b)

Abs(x) == IF x < 0 THEN 0 - x ELSE x

Rat(n, d) == [n |-> n \div GCD(Abs(n), d), d |-> d \div GCD(Abs(n), d)]

Zero == Rat(0, 1)

One == Rat(1, 1)

\* a + b, each operand evaluated once
RatAdd(a, b) ==
    CHOOSE r \in {Rat(x.n * y.d + y.n * x.d, x.d * y.d) : x \in {a}, y \in {b}} : TRUE

\* a / b for b > 0
RatDiv(a, b) == Rat(a.n * b.d, a.d * b.n)

RECURSIVE RatSumFrom(_, _)
RatSumFrom(x, i) == IF i > Len(x) THEN Zero ELSE RatAdd(x[i], RatSumFrom(x, i + 1))

\* x.sum() of an array of floats
RatSum(x) == RatSumFrom(x, 1)

(***************************************************************************)
(* IndexManager                                                            *)
(***************************************************************************)
\* augmented_indices.append(key); augmented_indices_map[key] = region, where
\* region is the i-th (1-based) of the original regions
Entry(key, region, i) == [key |-> key, region |-> region, origin |-> i]

\* an augmentation that never adds the strand-flipped counterpart
WithFlip_KeyOnly(key, region, i) == <<Entry(key, region, i)>>

\* a key, and its strand-flipped counterpart if always_reverse_complement, each
\* appended to augmented_indices and mapped to region, the i-th original region
WithFlip(key, region, i) ==
    IF always_reverse_complement
    THEN <<Entry(key, region, i), Entry(_flip_region_strand(key), region, i)>>
    ELSE <<Entry(key, region, i)>>

RECURSIVE ShiftedEntries(_, _, _, _)
\* the loop of _augment_indices over the shifted regions, from the j-th on
ShiftedEntries(shifted_regions, region, i, j) ==
    IF j > Len(shifted_regions) THEN <<>>
    ELSE WithFlip(shifted_regions[j], region, i)
         \o ShiftedEntries(shifted_regions, region, i, j + 1)

RECURSIVE AugmentFrom(_, _, _)

AugmentShifted(acc, regions, i, shifted) ==
    IF shifted.err # "none" THEN [err |-> shifted.err, val |-> <<>>]
    ELSE AugmentFrom(acc \o ShiftedEntries(shifted.val, regions[i], i, 1), regions, i + 1)

AugmentStranded(acc, regions, i, stranded_region) ==
    IF deterministic_shift
    THEN AugmentShifted(acc, regions, i, _deterministic_shift_region(stranded_region))
    ELSE AugmentFrom(acc \o WithFlip(stranded_region, regions[i], i), regions, i + 1)

\* one pass of the loop of _augment_indices; st is _check_strandedness(region)
AugmentRegion(acc, regions, i, st) ==
    IF st.err # "none" THEN [err |-> st.err, val |-> <<>>]
    ELSE IF st.val THEN AugmentStranded(acc, regions, i, regions[i])
    ELSE AugmentStranded(acc, regions, i, regions[i] \o <<":", "+">>)

\* the loop of _augment_indices from the i-th region on; acc holds the keys
\* appended so far, in order, each with the region it was mapped to
AugmentFrom(acc, regions, i) ==
    IF i > Len(regions) THEN [err |-> "none", val |-> acc]
    ELSE AugmentRegion(acc, regions, i, _check_strandedness(regions[i]))

\* self.augmented_indices after the appends
AugmentedList(entries) == [k \in 1..Len(entries) |-> entries[k].key]

\* self.augmented_indices_map after the assignments: a key holds the region of
\* its last assignment
AugmentedMap(entries) ==
    [key \in {entries[k].key : k \in 1..Len(entries)} |->
        entries[CHOOSE k \in 1..Len(entries) :
                   /\ entries[k].key = key
                   /\ \A l \in 1..Len(entries) : entries[l].key = key => l <= k].region]

\* for each position of augmented_indices the position (1-based) of the original
\* region whose pass of the loop appended it
AugmentedOrigins(entries) == [k \in 1..Len(entries) |-> entries[k].origin]

Augmented(r) ==
    [err |-> r.err, list |-> AugmentedList(r.val), map |-> AugmentedMap(r.val),
     origins |-> AugmentedOrigins(r.val)]

_augment_indices(regions) == Augmented(AugmentFrom(<<>>, regions, 1))

\* a swap that loses x[i]: x[i] = x[j] without the assignment back
Swapped_Overwrites(x, i, j) ==
    [k \in 1..Len(x) |-> IF k = i + 1 THEN x[j + 1] ELSE x[k]]

\* x[i], x[j] = x[j], x[i] with 0-based i and j
Swapped(x, i, j) ==
    [k \in 1..Len(x) |-> IF k = i + 1 THEN x[j + 1] ELSE IF k = j + 1 THEN x[i + 1] ELSE x[k]]

(***************************************************************************)
(* AnnDataset                                                              *)
(***************************************************************************)
\* a split that keeps every column
KeptFrom_All(labels, sp, j) == [k \in 1..(Len(labels) - j + 1) |-> j + k - 1]

RECURSIVE KeptFrom(_, _, _)
\* the positions j.. of the columns whose split label is sp, in order
KeptFrom(labels, sp, j) ==
    IF j > Len(labels) THEN <<>>
    ELSE IF labels[j] = sp THEN <<j>> \o KeptFrom(labels, sp, j + 1)
    ELSE KeptFrom(labels, sp, j + 1)

\* anndata[:, columns].copy(): var_names and X restricted to the kept columns
Subset(a, kept) ==
    [var_names |-> [k \in 1..Len(kept) |-> a.var_names[kept[k]]],
     X |-> [k \in 1..Len(kept) |-> a.X[kept[k]]]]

_split_anndata(a, sp) ==
    IF sp # "None" /\ ~a.has_split
    THEN [err |-> "KeyError", val |-> [var_names |-> <<>>, X |-> <<>>]]
    ELSE IF sp # "None"
    THEN [err |-> "none", val |-> Subset(a, KeptFrom(a.split_col, sp, 1))]
    ELSE [err |-> "none", val |-> [var_names |-> a.var_names, X |-> a.X]]

\* {index: i for i, index in enumerate(indices)}: the last position of a name
IndexMap(names) ==
    [r \in {names[i] : i \in 1..Len(names)} |->
        (CHOOSE i \in 1..Len(names) :
            names[i] = r /\ \A k \in 1..Len(names) : names[k] = r => k <= i) - 1]

\* np.clip(probs, 0, None)
Clip(x) == IF x.n < 0 THEN Zero ELSE x

\* the loop that fills augmented_probs from the caller's sample_prob column
AugmentedProbs(a, list, map, imap) ==
    IF a.has_sample_prob
    THEN [none |-> FALSE,
          val |-> [i \in 1..Len(list) |-> Clip(a.sample_prob[imap[map[list[i]]] + 1])]]
    ELSE [none |-> TRUE, val |-> <<>>]

\* anndata.varp[key] of an AnnData over n regions: an n x n matrix whose row j
\* and column c belong to regions j and c of var_names
VarpMatrix(n) == [j \in 1..n |-> [c \in 1..n |-> 10 * j + c]]

\* anndata.varp: one matrix, under the key "contacts"
Varp(a) == [k \in {"contacts"} |-> VarpMatrix(Len(a.var_names))]

\* self.varp_data[key] = anndata.varp[key], of the anndata the constructor was given
VarpData(a) ==
    [k \in {varp_keys[i] : i \in 1..Len(varp_keys)} \cap DOMAIN Varp(a) |-> Varp(a)[k]]

NotBuilt(e, calls) ==
    [err |-> e, anndata |-> [var_names |-> <<>>, X |-> <<>>], index_map |-> EmptyDict,
     sequences |-> EmptyDict, fetches |-> calls, list |-> <<>>, map |-> EmptyDict,
     origins |-> <<>>, probs |-> [none |-> TRUE, val |-> <<>>], varp_data |-> EmptyDict]

\* self.seq_len = len(get_sequence(self.indices[0], stranded)), then the weights
InitSeqLen(a, sub, ld, aug, g) ==
    IF g.err # "none" THEN NotBuilt(g.err, ld.fetches \cup g.fetches)
    ELSE [err |-> "none", anndata |-> sub, index_map |-> IndexMap(sub.var_names),
          sequences |-> ld.sequences, fetches |-> ld.fetches \cup g.fetches,
          list |-> aug.list, map |-> aug.map, origins |-> aug.origins,
          probs |-> AugmentedProbs(a, aug.list, aug.map, IndexMap(sub.var_names)),
          varp_data |-> VarpData(a)]

InitAugmented(a, sub, stranded, ld, aug) ==
    IF aug.err # "none" THEN NotBuilt(aug.err, ld.fetches)
    ELSE InitSeqLen(a, sub, ld, aug,
                    GetSequenceFrom(ld.sequences, sub.var_names[1],
                                    IF stranded THEN "True" ELSE "False", 0))

InitLoaded(a, sub, stranded, ld) ==
    IF ld.err # "none" THEN NotBuilt(ld.err, ld.fetches)
    ELSE InitAugmented(a, sub, stranded, ld, _augment_indices(sub.var_names))

InitStranded(a, sub, st) ==
    IF st.err # "none" THEN NotBuilt(st.err, {})
    ELSE InitLoaded(a, sub, st.val, SequenceLoaderInit(sub.var_names))

InitIndices(a, sub) ==
    IF Len(sub.var_names) = 0 THEN NotBuilt("IndexError", {})
    ELSE InitStranded(a, sub, _check_strandedness(sub.var_names[1]))

\* for key in self.varp_keys: a key that anndata.varp lacks raises ValueError
InitVarpData(a, sub) ==
    IF \E i \in 1..Len(varp_keys) : varp_keys[i] \notin DOMAIN Varp(a)
    THEN NotBuilt("ValueError", {})
    ELSE InitIndices(a, sub)

InitSplit(a, sub) ==
    IF sub.err # "none" THEN NotBuilt(sub.err, {}) ELSE InitVarpData(a, sub.val)

\* AnnDataset.__init__(anndata = a, split = sp, ...): the fields it sets, or the
\* exception it raises
AnnDatasetInit(a, sp) == InitSplit(a, _split_anndata(a, sp))

\* one_hot_encode_sequence: one row per base over the channels A, C, G, T
OneHotRow(c) ==
    CASE c = "A" -> <<1, 0, 0, 0>> [] c = "C" -> <<0, 1, 0, 0>>
      [] c = "G" -> <<0, 0, 1, 0>> [] c = "T" -> <<0, 0, 0, 1>>
      [] OTHER -> <<0, 0, 0, 0>>

one_hot_encode_sequence(sequence) == [i \in 1..Len(sequence) |-> OneHotRow(sequence[i])]

\* _get_target(index): the column of anndata.X that index_map names
_get_target(self, index) ==
    IF index \notin DOMAIN self.index_map THEN [err |-> "KeyError", val |-> 0]
    ELSE [err |-> "none", val |-> self.anndata.X[self.index_map[index] + 1]]

NoItemBut(idx, key, shift, coin, e, calls) ==
    [idx |-> idx, key |-> key, shift |-> shift, coin |-> coin, err |-> e,
     sequence |-> <<>>, bases |-> <<>>, y |-> 0, calls |-> calls, varp |-> EmptyDict]

\* the end of __getitem__: the random reverse complement is applied to the
\* encoded array x, which has no translate method
ItemBuilt(idx, key, shift, coin, g, y) ==
    IF y.err # "none" THEN NoItemBut(idx, key, shift, coin, y.err, g.fetches)
    ELSE IF random_reverse_complement /\ coin
    THEN NoItemBut(idx, key, shift, coin, "AttributeError", g.fetches)
    ELSE [idx |-> idx, key |-> key, shift |-> shift, coin |-> coin, err |-> "none",
          sequence |-> one_hot_encode_sequence(g.val), bases |-> g.val, y |-> y.val,
          calls |-> g.fetches, varp |-> EmptyDict]

ItemFetched(self, idx, key, original_index, shift, coin, g) ==
    IF g.err # "none" THEN NoItemBut(idx, key, shift, coin, g.err, g.fetches)
    ELSE ItemBuilt(idx, key, shift, coin, g, _get_target(self, original_index))

ItemOfKey(self, idx, key, shift, coin) ==
    IF key \notin DOMAIN self.augmented_indices_map
    THEN NoItemBut(idx, key, shift, coin, "KeyError", {})
    ELSE ItemFetched(self, idx, key, self.augmented_indices_map[key], shift, coin,
                     GetSequenceFrom(self.sequences, key, "True", shift))

\* list[i] for i in [-n, n): a negative index counts from the end
PyIndex(i, n) == IF i < 0 THEN i + n ELSE i

\* mat[idx] is defined for idx in [-rows, rows)
RowInRange(mat, idx) == idx < Len(mat) /\ idx >= 0 - Len(mat)

\* for key in self.varp_keys: item[key] = self.varp_data[key][idx], the row at
\* the position idx the caller asked for
ItemWithVarp(self, idx, item) ==
    IF item.err # "none" THEN item
    ELSE IF \E k \in DOMAIN self.varp_data : ~RowInRange(self.varp_data[k], idx)
    THEN NoItemBut(idx, item.key, item.shift, item.coin, "IndexError", item.calls)
    ELSE [item EXCEPT !.varp = [k \in DOMAIN self.varp_data |->
                                  self.varp_data[k][PyIndex(idx, Len(self.varp_data[k])) + 1]]]

\* a __getitem__ that looks the region up under the key that is at idx by then,
\* not under the key it read first
RetrievedItem_ReadsKeyAgain(self, idx, key, shift, coin) ==
    ItemWithVarp(self, idx,
        ItemFetched(self, idx, key,
                    self.augmented_indices_map[
                        self.augmented_indices[PyIndex(idx, Len(self.augmented_indices)) + 1]],
                    shift, coin, GetSequenceFrom(self.sequences, key, "True", shift)))

\* __getitem__ after augmented_index = augmented_indices[idx] was read: the map
\* lookup, the sequence, the target and the auxiliary fields, all from that key
RetrievedItem(self, idx, key, shift, coin) ==
    ItemWithVarp(self, idx, ItemOfKey(self, idx, key, shift, coin))

\* __getitem__(idx) with the random shift and the random coin (rand() < 0.5) drawn
__getitem__(self, idx, shift, coin) ==
    IF idx >= Len(self.augmented_indices) \/ idx < 0 - Len(self.augmented_indices)
    THEN NoItemBut(idx, <<>>, shift, coin, "IndexError", {})
    ELSE RetrievedItem(self, idx,
                       self.augmented_indices[PyIndex(idx, Len(self.augmented_indices)) + 1],
                       shift, coin)

\* AnnDataset.__len__
DatasetLen(self) == Len(self.augmented_indices)

(***************************************************************************)
(* MetaAnnDataset                                                          *)
(***************************************************************************)
\* global indices whose local index counts from 1
MetaSamples_OneBased(ds_idx, ds) ==
    [i \in 1..Len(ds.augmented_indices) |->
        [index |-> <<ds_idx, i>>,
         prob |-> IF ~ds.augmented_probs.none THEN ds.augmented_probs.val[i] ELSE One]]

\* the loops of MetaAnnDataset.__init__ over range(ds_len): the global index
\* (ds_idx, local_i) and the weight of every sample of the dataset ds, 1.0 where
\* the dataset has no augmented_probs
MetaSamples(ds_idx, ds) ==
    [i \in 1..Len(ds.augmented_indices) |->
        [index |-> <<ds_idx, i - 1>>,
         prob |-> IF ~ds.augmented_probs.none THEN ds.augmented_probs.val[i] ELSE One]]

RECURSIVE MetaFrom(_, _)
\* the loop over enumerate(datasets), from ds_idx on
MetaFrom(dss, ds_idx) ==
    IF ds_idx >= Len(dss) THEN <<>>
    ELSE MetaSamples(ds_idx, dss[ds_idx + 1]) \o MetaFrom(dss, ds_idx + 1)

\* a normalisation without the uniform fallback: all-zero weights stay zero
Normalized_NoFallback(probs, total) ==
    IF total.n > 0 THEN [k \in 1..Len(probs) |-> RatDiv(probs[k], total)]
    ELSE probs

\* global_probs /= total if total > 0, else global_probs.fill(1.0 / n)
Normalized(probs, total) ==
    IF total.n > 0 THEN [k \in 1..Len(probs) |-> RatDiv(probs[k], total)]
    ELSE [k \in 1..Len(probs) |-> Rat(1, Len(probs))]

MetaMerged(samples) ==
    [err |-> "none",
     global_indices |-> [k \in 1..Len(samples) |-> samples[k].index],
     global_probs |-> Normalized([k \in 1..Len(samples) |-> samples[k].prob],
                                 RatSum([k \in 1..Len(samples) |-> samples[k].prob]))]

\* MetaAnnDataset.__init__(datasets)
MetaAnnDatasetInit(dss) ==
    IF Len(dss) = 0
    THEN [err |-> "ValueError", global_indices |-> <<>>, global_probs |-> <<>>]
    ELSE MetaMerged(MetaFrom(dss, 0))

\* MetaAnnDataset.__len__
Meta__len__ == Len(global_indices)

\* MetaAnnDataset.__getitem__(global_idx), the sub-dataset drawing shift and coin
Meta__getitem__(global_idx, shift, coin) ==
    IF global_idx >= Len(global_indices) \/ global_idx < 0 - Len(global_indices)
    THEN NoItemBut(global_idx, <<>>, shift, coin, "IndexError", {})
    ELSE __getitem__(datasets[global_indices[PyIndex(global_idx, Len(global_indices)) + 1][1] + 1],
                     global_indices[PyIndex(global_idx, Len(global_indices)) + 1][2],
                     shift, coin)

(***************************************************************************)
(* The SequenceLoader on its own: every loader that can be constructed     *)
(* over the genome, and get_sequence calls on it.                          *)
(***************************************************************************)
Strands == {<<"+">>, <<"-">>}

\* the regions the model draws: chr1:start-end with and without a strand
RegionPool ==
    {UnstrandedRegion(Chr1, s, s + n) : s \in 0..MaxStart, n \in 1..MaxRegionLen}
    \cup {StrandedRegion(Chr1, s, s + n, sd) :
            s \in 0..MaxStart, n \in 1..MaxRegionLen, sd \in Strands}

NoCall == [region |-> <<>>, stranded |-> "None", shift |-> 0, err |-> "nocall",
           val |-> <<>>, extended |-> <<>>]

NoItem == [idx |-> 0, key |-> <<>>, shift |-> 0, coin |-> FALSE, err |-> "nocall",
           sequence |-> <<>>, bases |-> <<>>, y |-> 0, calls |-> {}, varp |-> EmptyDict]

NoAdata == [var_names |-> <<>>, X |-> <<>>, has_split |-> FALSE, split_col |-> <<>>,
            has_sample_prob |-> FALSE, sample_prob |-> <<>>]

\* no dataset is built around the loader
NoDataset ==
    /\ adata = NoAdata
    /\ split = "None"
    /\ anndata = [var_names |-> <<>>, X |-> <<>>]
    /\ index_map = EmptyDict
    /\ random_reverse_complement = FALSE
    /\ shuffle = FALSE
    /\ augmented_indices = <<>>
    /\ augmented_indices_map = EmptyDict
    /\ origins = <<>>
    /\ augmented_probs = [none |-> TRUE, val |-> <<>>]
    /\ shuffle_i = 0
    /\ lastItem = NoItem

NoMetaItem == [global_idx |-> 0, item |-> NoItem]

\* no MetaAnnDataset is built, and no dataset to merge
NoMeta ==
    /\ datasets = <<>>
    /\ metaConstructed = "no"
    /\ global_indices = <<>>
    /\ global_probs = <<>>
    /\ lastMetaItem = NoMetaItem

\* __call__() was never invoked
NoGenerator ==
    /\ generator = "none"
    /\ gen_i = 0
    /\ gen_len = 0
    /\ yielded = <<>>
    /\ pass_shuffles = 0
    /\ passes = 0

\* no string is being reverse complemented
NoComplement ==
    /\ rc_sequence = <<>>
    /\ rc_result = <<>>
    /\ rc_applied = 0

\* no varp_keys were given
NoVarp ==
    /\ varp_keys = <<>>
    /\ varp_data = EmptyDict

\* no second generator was created
NoSecond ==
    /\ second = "none"
    /\ second_i = 0
    /\ second_len = 0
    /\ second_yielded = <<>>

\* no swap of np.random.shuffle is half done
NoSwap ==
    /\ swap_j = 0
    /\ swap_tmp = <<>>

\* the loader after its constructor ended as c
LoaderBuilt(c) ==
    /\ constructed = IF c.err = "none" THEN "ok" ELSE c.err
    /\ sequences = IF c.err = "none" THEN c.sequences ELSE EmptyDict
    /\ fetches = c.fetches

InitLoader ==
    /\ chromLen \in 3..MaxChromLen
    /\ chromsizes \in {EmptyDict, [c \in {Chr1} |-> chromLen]}
    /\ max_stochastic_shift \in 0..MaxShift
    /\ in_memory \in BOOLEAN
    /\ always_reverse_complement \in BOOLEAN
    /\ deterministic_shift \in BOOLEAN
    /\ indices \in IF in_memory THEN {<<r>> : r \in RegionPool} ELSE {<<>>}
    /\ LoaderBuilt(SequenceLoaderInit(indices))
    /\ lastCall = NoCall
    /\ NoDataset
    /\ NoMeta
    /\ NoGenerator
    /\ NoComplement
    /\ NoVarp
    /\ NoSwap
    /\ NoSecond

\* the regions get_sequence is called with: any region of the pool when the
\* genome is read per call, and the cached keys, the loaded regions and one
\* region that was not loaded when the loader is in memory
CallRegions ==
    IF in_memory
    THEN (DOMAIN sequences) \cup {indices[i] : i \in 1..Len(indices)}
           \cup {StrandedRegion(Chr1, MaxStart + 1, MaxStart + 2, <<"+">>)}
    ELSE RegionPool

\* the values a caller passes as stranded: None, or the region's strandedness
StrandedArgs(region) == {"None", IF MatchesStranded(region) THEN "True" ELSE "False"}

\* what a get_sequence call that ended as r leaves behind
Called(region, stranded, shift, r) ==
    /\ lastCall' = [region |-> region, stranded |-> stranded, shift |-> shift,
                    err |-> r.err, val |-> r.val, extended |-> r.extended]
    /\ fetches' = r.fetches

\* a caller calls get_sequence and gets the result; callers come one at a time
GetSequence ==
    /\ constructed = "ok"
    /\ lastCall = NoCall
    /\ \E region \in CallRegions :
       \E shift \in (0 - max_stochastic_shift)..max_stochastic_shift :
       \E stranded \in StrandedArgs(region) :
          Called(region, stranded, shift, get_sequence(region, stranded, shift))
    /\ UNCHANGED <<constructed, chromLen, chromsizes, max_stochastic_shift, in_memory,
                   always_reverse_complement, deterministic_shift, indices, sequences>>
    /\ UNCHANGED datasetVars
    /\ UNCHANGED metaVars
    /\ UNCHANGED <<generatorVars, complementVars, varpVars, swapVars, secondVars>>

\* the caller takes the result of its call: the loader is ready for the next call
ReturnSequence ==
    /\ lastCall # NoCall
    /\ lastCall' = NoCall
    /\ fetches' = {}
    /\ UNCHANGED <<constructed, chromLen, chromsizes, max_stochastic_shift, in_memory,
                   always_reverse_complement, deterministic_shift, indices, sequences>>
    /\ UNCHANGED datasetVars
    /\ UNCHANGED metaVars
    /\ UNCHANGED <<generatorVars, complementVars, varpVars, swapVars, secondVars>>

NextLoader == GetSequence \/ ReturnSequence

SpecLoader == InitLoader /\ [][NextLoader]_vars

(***************************************************************************)
(* The AnnDataset: every dataset that can be constructed, shuffles of its  *)
(* augmented indices and __getitem__ calls on it.                          *)
(***************************************************************************)
\* regions one and two strides from the chromosome start, so that the
\* deterministic shifts of one region meet the other and leave the chromosome
DatasetPool ==
    {UnstrandedRegion(Chr1, stride, stride + DatasetRegionLen),
     UnstrandedRegion(Chr1, 2 * stride, 2 * stride + DatasetRegionLen),
     StrandedRegion(Chr1, 2 * stride, 2 * stride + DatasetRegionLen, <<"+">>),
     StrandedRegion(Chr1, 2 * stride, 2 * stride + DatasetRegionLen, <<"-">>)}

\* var_names: lists of distinct regions
RegionLists ==
    UNION {{f \in [1..n -> DatasetPool] : \A i, j \in 1..n : f[i] = f[j] => i = j} :
             n \in 1..MaxRegions}

\* X: a target per column that names the column
TargetOf(j) == 10 + j

\* sample_prob: a weight per column, negative for the first
WeightOf(j) == IF j = 1 THEN Rat(-1, 1) ELSE Rat(j, 1)

PlainAdata(names) ==
    [var_names |-> names, X |-> [j \in 1..Len(names) |-> TargetOf(j)],
     has_split |-> FALSE, split_col |-> <<>>,
     has_sample_prob |-> FALSE, sample_prob |-> <<>>]

\* the AnnData objects over names, with and without split and sample_prob columns
Adatas(names) ==
    {[var_names |-> names, X |-> [j \in 1..Len(names) |-> TargetOf(j)],
      has_split |-> TRUE, split_col |-> labels,
      has_sample_prob |-> hp,
      sample_prob |-> IF hp THEN [j \in 1..Len(names) |-> WeightOf(j)] ELSE <<>>] :
        labels \in [1..Len(names) -> {"train", "val"}], hp \in BOOLEAN}
    \cup
    {[var_names |-> names, X |-> [j \in 1..Len(names) |-> TargetOf(j)],
      has_split |-> FALSE, split_col |-> <<>>,
      has_sample_prob |-> hp,
      sample_prob |-> IF hp THEN [j \in 1..Len(names) |-> WeightOf(j)] ELSE <<>>] :
        hp \in BOOLEAN}

\* The constructor's arguments of the model: over every region list and
\* augmentation, (1) shuffled datasets with and without the cache, (2) unshuffled
\* ones with and without the cache, the stochastic shift and the random reverse
\* complement, (3) ones over AnnData objects with split and sample_prob columns.
\* No field of the dataset is set yet.
DatasetArguments ==
    /\ chromLen = DatasetChromLen
    /\ chromsizes = [c \in {Chr1} |-> chromLen]
    /\ always_reverse_complement \in BOOLEAN
    /\ deterministic_shift \in BOOLEAN
    /\ \E names \in RegionLists :
         \/ /\ shuffle = TRUE
            /\ in_memory \in BOOLEAN
            /\ max_stochastic_shift = 0
            /\ random_reverse_complement = FALSE
            /\ adata = PlainAdata(names)
            /\ split = "None"
         \/ /\ shuffle = FALSE
            /\ in_memory \in BOOLEAN
            /\ max_stochastic_shift \in 0..MaxItemShift
            /\ random_reverse_complement \in BOOLEAN
            /\ adata = PlainAdata(names)
            /\ split = "None"
         \/ /\ shuffle = FALSE
            /\ in_memory = FALSE
            /\ max_stochastic_shift = 0
            /\ random_reverse_complement = FALSE
            /\ adata \in Adatas(names)
            /\ split \in {"None", "train"}
    /\ constructed = "no"
    /\ anndata = [var_names |-> <<>>, X |-> <<>>]
    /\ indices = <<>>
    /\ index_map = EmptyDict
    /\ sequences = EmptyDict
    /\ fetches = {}
    /\ augmented_indices = <<>>
    /\ augmented_indices_map = EmptyDict
    /\ origins = <<>>
    /\ augmented_probs = [none |-> TRUE, val |-> <<>>]
    /\ lastCall = NoCall
    /\ shuffle_i = 0
    /\ lastItem = NoItem
    /\ NoMeta
    /\ NoGenerator
    /\ NoComplement

\* the datasets constructed without varp_keys
InitDataset ==
    /\ DatasetArguments
    /\ NoVarp
    /\ NoSwap
    /\ NoSecond

\* the dataset after its constructor ended as b
DatasetBuilt(b) ==
    /\ constructed' = IF b.err = "none" THEN "ok" ELSE b.err
    /\ anndata' = b.anndata
    /\ indices' = b.anndata.var_names
    /\ index_map' = b.index_map
    /\ sequences' = b.sequences
    /\ fetches' = b.fetches
    /\ augmented_indices' = b.list
    /\ augmented_indices_map' = b.map
    /\ origins' = b.origins
    /\ augmented_probs' = b.probs
    /\ varp_data' = b.varp_data

\* AnnDataset(anndata = adata, split = split, ...) runs: the dataset is built, or
\* the constructor raises
Construct ==
    /\ constructed = "no"
    /\ DatasetBuilt(AnnDatasetInit(adata, split))
    /\ UNCHANGED <<chromLen, chromsizes, max_stochastic_shift, in_memory,
                   always_reverse_complement, deterministic_shift, lastCall>>
    /\ UNCHANGED <<adata, split, random_reverse_complement, shuffle, shuffle_i, lastItem>>
    /\ UNCHANGED metaVars
    /\ UNCHANGED <<generatorVars, complementVars, varp_keys, swapVars, secondVars>>

\* shuffle_indices: np.random.shuffle(self.augmented_indices) starts; it swaps
\* element i with a random element j <= i, for i from the last index down to 1
ShuffleIndices ==
    /\ constructed = "ok"
    /\ shuffle
    /\ shuffle_i = 0
    /\ lastItem = NoItem
    /\ Len(augmented_indices) >= 2
    /\ Len(augmented_indices) <= MaxShuffleLen
    /\ shuffle_i' = Len(augmented_indices) - 1
    /\ UNCHANGED <<loaderVars, adata, split, anndata, index_map, random_reverse_complement,
                   shuffle, augmented_indices, augmented_indices_map, origins,
                   augmented_probs, lastItem>>
    /\ UNCHANGED metaVars
    /\ UNCHANGED <<generatorVars, complementVars, varpVars, swapVars, secondVars>>

\* one pass of the loop of np.random.shuffle
ShuffleSwap ==
    /\ shuffle_i > 0
    /\ \E j \in 0..shuffle_i :
         /\ augmented_indices' = Swapped(augmented_indices, shuffle_i, j)
         /\ origins' = Swapped(origins, shuffle_i, j)
    /\ shuffle_i' = shuffle_i - 1
    /\ UNCHANGED <<loaderVars, adata, split, anndata, index_map, random_reverse_complement,
                   shuffle, augmented_indices_map, augmented_probs, lastItem>>
    /\ UNCHANGED metaVars
    /\ UNCHANGED <<generatorVars, complementVars, varpVars, swapVars, secondVars>>

\* the dataset object held in the state
Self ==
    [anndata |-> anndata, index_map |-> index_map, sequences |-> sequences,
     augmented_indices |-> augmented_indices,
     augmented_indices_map |-> augmented_indices_map,
     augmented_probs |-> augmented_probs, varp_data |-> varp_data]

\* the shifts __getitem__ draws from: np.random.randint(-m, m + 1) if m > 0
ItemShifts == (0 - max_stochastic_shift)..max_stochastic_shift

\* the values of np.random.rand() < 0.5, which is drawn only if random_reverse_complement
ItemCoins == IF random_reverse_complement THEN BOOLEAN ELSE {FALSE}

\* a __getitem__ that keeps the sequence it read in the loader's cache
ItemDone_Memoises(item) ==
    /\ lastItem' = item
    /\ fetches' = item.calls
    /\ sequences' = IF item.err = "none" THEN DictSet(sequences, item.key, item.bases)
                    ELSE sequences
    /\ UNCHANGED <<indices, anndata, index_map, augmented_indices, augmented_indices_map,
                   origins, augmented_probs>>

\* what a __getitem__ call leaves behind: the item it returns (and the reads
\* of the genome it made); neither __getitem__ nor get_sequence assigns to a
\* field of the dataset, the index manager or the loader
ItemDone(item) ==
    /\ lastItem' = item
    /\ fetches' = item.calls
    /\ UNCHANGED <<sequences, indices, anndata, index_map, augmented_indices,
                   augmented_indices_map, origins, augmented_probs>>

\* a caller calls __getitem__(idx) and gets the item or the exception
GetItem ==
    /\ constructed = "ok"
    /\ shuffle_i = 0
    /\ lastItem = NoItem
    /\ \E idx \in 0..(Len(augmented_indices) - 1) :
       \E shift \in ItemShifts :
       \E coin \in ItemCoins :
          ItemDone(__getitem__(Self, idx, shift, coin))
    /\ UNCHANGED <<constructed, chromLen, chromsizes, max_stochastic_shift, in_memory,
                   always_reverse_complement, deterministic_shift, lastCall>>
    /\ UNCHANGED <<adata, split, random_reverse_complement, shuffle, shuffle_i>>
    /\ UNCHANGED metaVars
    /\ UNCHANGED <<generatorVars, complementVars, varpVars, swapVars, secondVars>>

\* the caller takes the item
ReturnItem ==
    /\ lastItem # NoItem
    /\ lastItem' = NoItem
    /\ fetches' = {}
    /\ UNCHANGED <<constructed, chromLen, chromsizes, max_stochastic_shift, in_memory,
                   always_reverse_complement, deterministic_shift, indices, sequences,
                   lastCall>>
    /\ UNCHANGED <<adata, split, anndata, index_map, random_reverse_complement, shuffle,
                   augmented_indices, augmented_indices_map, origins, augmented_probs,
                   shuffle_i>>
    /\ UNCHANGED metaVars
    /\ UNCHANGED <<generatorVars, complementVars, varpVars, swapVars, secondVars>>

Next == Construct \/ ShuffleIndices \/ ShuffleSwap \/ GetItem \/ ReturnItem

Spec == InitDataset /\ [][Next]_vars

(***************************************************************************)
(* The MetaAnnDataset: datasets are constructed one after the other, then  *)
(* merged, and items are read through the merged dataset.                  *)
(***************************************************************************)
\* the region lists of the datasets to merge: unstranded regions in genome order
MetaRegionLists ==
    {names \in RegionLists :
        /\ \A i \in 1..Len(names) : ~_check_strandedness(names[i]).val
        /\ \A i \in 1..(Len(names) - 1) :
              ParseRegion(names[i] \o <<":", "+">>).start
                < ParseRegion(names[i + 1] \o <<":", "+">>).start}

\* sample_prob columns: all one half, all zero, and a negative first weight
WeightColumns(n) ==
    {[j \in 1..n |-> Rat(1, 2)], [j \in 1..n |-> Zero], [j \in 1..n |-> WeightOf(j)]}

\* the AnnData objects over names: without a sample_prob column, and with one
MetaAdatas(names) ==
    {PlainAdata(names)}
    \cup {[PlainAdata(names) EXCEPT !.has_sample_prob = TRUE, !.sample_prob = w] :
            w \in WeightColumns(Len(names))}

\* the options shared by the datasets to merge, with at most one of the two
\* augmentations; nothing is constructed yet
InitMeta ==
    /\ chromLen = DatasetChromLen
    /\ chromsizes = [c \in {Chr1} |-> chromLen]
    /\ always_reverse_complement \in BOOLEAN
    /\ deterministic_shift \in BOOLEAN
    /\ ~(always_reverse_complement /\ deterministic_shift)
    /\ in_memory = FALSE
    /\ max_stochastic_shift = 0
    /\ constructed = "no"
    /\ indices = <<>>
    /\ sequences = EmptyDict
    /\ fetches = {}
    /\ lastCall = NoCall
    /\ NoDataset
    /\ NoMeta
    /\ NoGenerator
    /\ NoComplement
    /\ NoVarp
    /\ NoSwap
    /\ NoSecond

\* the dataset object a constructor that ended as b returned
SelfOf(b) ==
    [anndata |-> b.anndata, index_map |-> b.index_map, sequences |-> b.sequences,
     augmented_indices |-> b.list, augmented_indices_map |-> b.map,
     augmented_probs |-> b.probs, varp_data |-> b.varp_data]

DatasetAdded(b) ==
    /\ b.err = "none"
    /\ datasets' = Append(datasets, SelfOf(b))

\* one more AnnDataset(...) is constructed for the list to merge
AddDataset ==
    /\ metaConstructed = "no"
    /\ Len(datasets) < MaxDatasets
    /\ \E names \in MetaRegionLists :
       \E a \in MetaAdatas(names) :
          DatasetAdded(AnnDatasetInit(a, "None"))
    /\ UNCHANGED <<loaderVars, datasetVars>>
    /\ UNCHANGED <<metaConstructed, global_indices, global_probs, lastMetaItem>>
    /\ UNCHANGED <<generatorVars, complementVars, varpVars, swapVars, secondVars>>

MetaBuilt(b) ==
    /\ metaConstructed' = IF b.err = "none" THEN "ok" ELSE b.err
    /\ global_indices' = b.global_indices
    /\ global_probs' = b.global_probs

\* MetaAnnDataset(datasets) runs
ConstructMeta ==
    /\ metaConstructed = "no"
    /\ MetaBuilt(MetaAnnDatasetInit(datasets))
    /\ UNCHANGED <<loaderVars, datasetVars, datasets, lastMetaItem>>
    /\ UNCHANGED <<generatorVars, complementVars, varpVars, swapVars, secondVars>>

MetaItemDone(global_idx, item) ==
    /\ lastMetaItem' = [global_idx |-> global_idx, item |-> item]
    /\ fetches' = item.calls

\* a caller calls MetaAnnDataset.__getitem__(global_idx)
MetaGetItem ==
    /\ metaConstructed = "ok"
    /\ lastMetaItem = NoMetaItem
    /\ \E global_idx \in 0..(Meta__len__ - 1) :
       \E shift \in ItemShifts :
       \E coin \in ItemCoins :
          MetaItemDone(global_idx, Meta__getitem__(global_idx, shift, coin))
    /\ UNCHANGED <<constructed, chromLen, chromsizes, max_stochastic_shift, in_memory,
                   always_reverse_complement, deterministic_shift, indices, sequences,
                   lastCall>>
    /\ UNCHANGED <<datasetVars, datasets, metaConstructed, global_indices, global_probs>>
    /\ UNCHANGED <<generatorVars, complementVars, varpVars, swapVars, secondVars>>

\* the caller takes the item
ReturnMetaItem ==
    /\ lastMetaItem # NoMetaItem
    /\ lastMetaItem' = NoMetaItem
    /\ fetches' = {}
    /\ UNCHANGED <<constructed, chromLen, chromsizes, max_stochastic_shift, in_memory,
                   always_reverse_complement, deterministic_shift, indices, sequences,
                   lastCall>>
    /\ UNCHANGED <<datasetVars, datasets, metaConstructed, global_indices, global_probs>>
    /\ UNCHANGED <<generatorVars, complementVars, varpVars, swapVars, secondVars>>

NextMeta == AddDataset \/ ConstructMeta \/ MetaGetItem \/ ReturnMetaItem

SpecMeta == InitMeta /\ [][NextMeta]_vars

(***************************************************************************)
(* Properties of the SequenceLoader (checked under SpecLoader).            *)
(***************************************************************************)
\* the region of the last call in its stranded form, and its parts
CallKey == IF MatchesStranded(lastCall.region) THEN lastCall.region
           ELSE lastCall.region \o <<":", "+">>

CallP == ParseRegion(CallKey)

CallLen == CallP.end - CallP.start

\* a call the loader was built to serve: any region when the genome is read
\* per call, a cached key when the loader is in memory
Served == lastCall # NoCall /\ (in_memory => CallKey \in DOMAIN sequences)

\* the upper-cased genome bases of [from, from + n), computed base by base
UpperGenome(from, n) == [i \in 1..n |-> UpperChar(GenomeBase(from + i - 1))]

\* C1: every get_sequence call on a well-formed region, for every strand, shift
\* and chromosome, with or without chromosome sizes, returns a string of exactly
\* end - start characters.
C1_LengthIsRegionLength ==
    Served => (lastCall.err = "none" /\ Len(lastCall.val) = CallLen)

\* The calls of C1 that return do return end - start characters, and the ones
\* that do not are the ones whose chromosome is in the size table and shorter
\* than the extended window (the fetch at a negative start, see C3).
C1_FailsOnlyOnShortChromosome ==
    Served =>
      IF lastCall.err = "none" THEN Len(lastCall.val) = CallLen
      ELSE /\ lastCall.err = "ValueError"
           /\ ~in_memory
           /\ Chr1 \in DOMAIN chromsizes
           /\ chromLen < CallLen + 2 * max_stochastic_shift

\* the window of a call lies inside the chromosome
CallWindowInside ==
    /\ CallP.start - max_stochastic_shift >= 0
    /\ CallP.end + max_stochastic_shift <= chromLen

\* C2: for a + strand or unstranded region whose extended window
\* [start - m, end + m) lies inside the chromosome, the window fetched is exactly
\* [start - m, end + m) and get_sequence(region, shift = s) is characters
\* [m + s, m + s + (end - start)) of it: the upper-cased bases of [start + s, end + s).
C2_ShiftedCropOfWindow ==
    (Served /\ CallP.strand = <<"+">> /\ CallWindowInside) =>
      /\ lastCall.err = "none"
      /\ lastCall.extended
           = UpperGenome(CallP.start - max_stochastic_shift, CallLen + 2 * max_stochastic_shift)
      /\ lastCall.val = SubSeq(lastCall.extended,
                               max_stochastic_shift + lastCall.shift + 1,
                               max_stochastic_shift + lastCall.shift + CallLen)
      /\ lastCall.val = UpperGenome(CallP.start + lastCall.shift, CallLen)
      /\ (~in_memory =>
            fetches = {[chrom |-> Chr1, start |-> CallP.start - max_stochastic_shift,
                        end |-> CallP.end + max_stochastic_shift]})

\* a shifted call on an unstranded region with its window inside the chromosome
C2_Witness ==
    /\ Served /\ CallWindowInside
    /\ lastCall.region = UnstrandedRegion(Chr1, 2, 3)
    /\ max_stochastic_shift = 2
    /\ lastCall.shift = -1
    /\ lastCall.val = <<"C">>

\* C3: every genome.fetch call has start >= 0 and, when the chromosome is in the
\* size table, end <= chrom_size, also for chromosomes shorter than
\* (end - start) + 2 * max_stochastic_shift.
C3_FetchInsideChromosome ==
    \A c \in fetches :
        /\ c.start >= 0
        /\ (c.chrom \in DOMAIN chromsizes => c.end <= chromsizes[c.chrom])

\* The fetches that leave the chromosome are those at a negative start, for a
\* chromosome in the size table that is shorter than the extended window; the
\* end never passes a known chromosome size.
C3_OutsideOnlyOnShortChromosome ==
    \A c \in fetches :
        /\ (c.chrom \in DOMAIN chromsizes => c.end <= chromsizes[c.chrom])
        /\ (c.start < 0 =>
              /\ c.chrom \in DOMAIN chromsizes
              /\ c.end - c.start > chromsizes[c.chrom])

(***************************************************************************)
(* Properties of the IndexManager and the AnnDataset (checked under Spec). *)
(***************************************************************************)
Built == constructed = "ok"

\* the number of augmented keys per logical region
Multiplier ==
    (IF always_reverse_complement THEN 2 ELSE 1)
    * (IF deterministic_shift THEN 2 * n_shifts + 1 ELSE 1)

\* C4: for every region list and every combination of always_reverse_complement
\* and deterministic_shift, len(augmented_indices) is len(regions) times 2 if
\* always_reverse_complement times 2 * n_shifts + 1 if deterministic_shift, at
\* construction and after any number of shuffles.
C4_AugmentedLength ==
    Built => Len(augmented_indices) = Len(indices) * Multiplier

\* two regions with their reverse complements, after shuffles that reordered them
C4_Witness ==
    /\ Built /\ shuffle /\ shuffle_i = 0
    /\ always_reverse_complement /\ ~deterministic_shift
    /\ Len(indices) = 2
    /\ Len(augmented_indices) = 4
    /\ origins = <<2, 1, 2, 1>>

\* C5: every element of augmented_indices is a key of augmented_indices_map,
\* every key maps to a region of the indices list, and every region of the
\* indices list is the image of at least one key.
C5_MapOntoRegions ==
    Built =>
      /\ \A k \in 1..Len(augmented_indices) :
            augmented_indices[k] \in DOMAIN augmented_indices_map
      /\ \A key \in DOMAIN augmented_indices_map :
            \E i \in 1..Len(indices) : augmented_indices_map[key] = indices[i]
      /\ \A i \in 1..Len(indices) :
            \E key \in DOMAIN augmented_indices_map : augmented_indices_map[key] = indices[i]

\* The part of C5 that the code keeps: keys are mapped, and to listed regions.
C5_MapIntoRegions ==
    Built =>
      /\ \A k \in 1..Len(augmented_indices) :
            augmented_indices[k] \in DOMAIN augmented_indices_map
      /\ \A key \in DOMAIN augmented_indices_map :
            \E i \in 1..Len(indices) : augmented_indices_map[key] = indices[i]

\* C6: every augmented key generated from a region r is mapped to r, and the
\* target __getitem__ returns for a position of augmented_indices is the target
\* column of the region that position was generated from; for every region
\* list, also regions a multiple of the stride apart and both strands of one interval.
C6_KeyMapsToItsRegion ==
    /\ Built =>
         \A k \in 1..Len(augmented_indices) :
            augmented_indices_map[augmented_indices[k]] = indices[origins[k]]
    /\ (Built /\ lastItem.err = "none") =>
         lastItem.y = anndata.X[origins[lastItem.idx + 1]]

\* two keys generated from different regions are the same string
KeyCollision ==
    \E k, l \in 1..Len(augmented_indices) :
        augmented_indices[k] = augmented_indices[l] /\ origins[k] # origins[l]

\* The keys of C6 are mapped to their region, and the targets are those of
\* their region, unless two regions generated the same key.
C6_WrongOnlyOnKeyCollision ==
    (Built /\ ~KeyCollision) =>
      /\ \A k \in 1..Len(augmented_indices) :
            augmented_indices_map[augmented_indices[k]] = indices[origins[k]]
      /\ lastItem.err = "none" => lastItem.y = anndata.X[origins[lastItem.idx + 1]]

\* the number of positions of list that hold key
Count(list, key) == Cardinality({k \in 1..Len(list) : list[k] = key})

\* the multiset of the elements of list
KeyBag(list) == [key \in {list[k] : k \in 1..Len(list)} |-> Count(list, key)]

\* C7: a shuffle keeps the multiset of augmented keys, augmented_indices_map and
\* the logical region list (content and order); only the order of
\* augmented_indices may differ. Stated of every step taken on a constructed
\* dataset, so of any number of shuffles.
C7_ShuffleKeepsContent ==
    [][Built =>
         /\ KeyBag(augmented_indices') = KeyBag(augmented_indices)
         /\ augmented_indices_map' = augmented_indices_map
         /\ indices' = indices]_vars

\* the five shifted keys of one region, shuffled into another order
C7_Witness ==
    /\ Built /\ shuffle /\ shuffle_i = 0
    /\ deterministic_shift /\ ~always_reverse_complement
    /\ Len(augmented_indices) = 5
    /\ augmented_indices[1] = indices[1] \o <<":", "+">>
    /\ origins = <<1, 1, 1, 1, 1>>

RatMax(a, b) == IF a.n * b.d >= b.n * a.d THEN a ELSE b

\* the position (1-based) of region among the columns of the caller's AnnData
ColumnOf(region) == CHOOSE j \in 1..Len(adata.var_names) : adata.var_names[j] = region

\* C8: with a sample_prob column, augmented_probs[i] is max(0, sample_prob) of
\* the logical region augmented_indices[i] was derived from, for every split and
\* every augmentation.
C8_ProbOfOriginRegion ==
    (Built /\ adata.has_sample_prob) =>
      /\ ~augmented_probs.none
      /\ Len(augmented_probs.val) = Len(augmented_indices)
      /\ \A k \in 1..Len(augmented_indices) :
            augmented_probs.val[k]
              = RatMax(Zero, adata.sample_prob[ColumnOf(indices[origins[k]])])

\* The weights of C8 are right when the split keeps every column and no two
\* regions generated the same key.
C8_RightWithoutSplit ==
    (Built /\ adata.has_sample_prob /\ ~KeyCollision
       /\ Len(indices) = Len(adata.var_names)) =>
      /\ ~augmented_probs.none
      /\ \A k \in 1..Len(augmented_indices) :
            augmented_probs.val[k]
              = RatMax(Zero, adata.sample_prob[ColumnOf(indices[origins[k]])])

(***************************************************************************)
(* Properties of the MetaAnnDataset (checked under SpecMeta).              *)
(***************************************************************************)
RECURSIVE PrefixLen(_)
\* the number of samples of the first d datasets
PrefixLen(d) == IF d = 0 THEN 0 ELSE DatasetLen(datasets[d]) + PrefixLen(d - 1)

TotalLen == PrefixLen(Len(datasets))

\* the dataset (1-based) that holds the k-th sample (0-based) of the concatenation
DatasetOfGlobal(k) ==
    CHOOSE d \in 1..Len(datasets) : PrefixLen(d - 1) <= k /\ k < PrefixLen(d)

\* the position (0-based) of the k-th sample of the concatenation in its dataset
LocalOfGlobal(k) == k - PrefixLen(DatasetOfGlobal(k) - 1)

\* the weight of sample l (0-based) of the dataset ds
WeightIn(ds, l) ==
    IF ds.augmented_probs.none THEN One ELSE ds.augmented_probs.val[l + 1]

\* w: the weights of the datasets' samples, concatenated in dataset order
FlatWeights ==
    [k \in 1..TotalLen |-> WeightIn(datasets[DatasetOfGlobal(k - 1)], LocalOfGlobal(k - 1))]

\* the datasets of the example: weights [0.5, 0.5], and one unweighted sample
ExampleDatasets ==
    /\ Len(datasets) = 2
    /\ ~datasets[1].augmented_probs.none
    /\ datasets[1].augmented_probs.val = <<Rat(1, 2), Rat(1, 2)>>
    /\ datasets[2].augmented_probs.none
    /\ DatasetLen(datasets[2]) = 1

\* C9: global_probs[k] is w_k / sum(w), w being the datasets' augmented_probs
\* (1.0 per sample without weights) concatenated in dataset order, so it sums to
\* 1 whenever sum(w) > 0; every entry is 1/n when sum(w) = 0; weights [0.5, 0.5]
\* and an unweighted one-sample dataset give [0.25, 0.25, 0.5].
C9_GlobalProbsNormalized ==
    metaConstructed = "ok" =>
      \A w \in {FlatWeights} :
      \A total \in {RatSum(w)} :
        /\ Len(global_probs) = Len(w)
        /\ \A k \in 1..Len(w) :
              global_probs[k] = IF total.n > 0 THEN RatDiv(w[k], total)
                                ELSE Rat(1, Len(w))
        /\ total.n > 0 => RatSum(global_probs) = One
        /\ ExampleDatasets => global_probs = <<Rat(1, 4), Rat(1, 4), Rat(1, 2)>>

\* the merged dataset of the example
C9_Witness ==
    /\ metaConstructed = "ok"
    /\ ExampleDatasets
    /\ global_probs = <<Rat(1, 4), Rat(1, 4), Rat(1, 2)>>

\* C10: len(MetaAnnDataset) is the sum of the datasets' lengths, the k-th global
\* index pair is (d, l) in concatenation order, and __getitem__(k) returns what
\* datasets[d].__getitem__(l) returns.
C10_GlobalIndexDelegates ==
    metaConstructed = "ok" =>
      /\ Meta__len__ = TotalLen
      /\ \A k \in 0..(TotalLen - 1) :
            global_indices[k + 1] = <<DatasetOfGlobal(k) - 1, LocalOfGlobal(k)>>
      /\ lastMetaItem # NoMetaItem =>
            lastMetaItem.item = __getitem__(datasets[DatasetOfGlobal(lastMetaItem.global_idx)],
                                            LocalOfGlobal(lastMetaItem.global_idx),
                                            lastMetaItem.item.shift, lastMetaItem.item.coin)

\* the first sample of the second of two datasets, read through the merged one
C10_Witness ==
    /\ metaConstructed = "ok"
    /\ Len(datasets) = 2
    /\ DatasetLen(datasets[1]) = 2
    /\ lastMetaItem # NoMetaItem
    /\ lastMetaItem.global_idx = 2
    /\ lastMetaItem.item.idx = 0
    /\ lastMetaItem.item.err = "none"
    /\ lastMetaItem.item.key = datasets[2].augmented_indices[1]
    /\ lastMetaItem.item.y = datasets[2].anndata.X[1]

(***************************************************************************)
(* Properties of the constructor's checks and of __getitem__'s output      *)
(* (checked under Spec).                                                   *)
(***************************************************************************)
\* C11: constructing an AnnDataset with both random_reverse_complement and
\* always_reverse_complement set fails with a configuration error: no dataset
\* with both flags set is ever built.
C11_BothFlagsRejected ==
    (random_reverse_complement /\ always_reverse_complement) =>
        constructed \in {"no", "ValueError"}

\* the sequence get_sequence resolves for the key and the shift of the last item
ItemResolved == GetSequenceFrom(sequences, lastItem.key, "True", lastItem.shift)

\* C12: with random_reverse_complement enabled every __getitem__ call completes,
\* and the sample's sequence is the one-hot encoding of the strand- and
\* shift-resolved sequence or of its reverse complement, with the target of
\* the key's region in both cases.
C12_RandomComplementEncoded ==
    (Built /\ random_reverse_complement /\ lastItem # NoItem) =>
        /\ lastItem.err = "none"
        /\ \E g \in {ItemResolved} :
              /\ g.err = "none"
              /\ lastItem.sequence \in {one_hot_encode_sequence(g.val),
                                        one_hot_encode_sequence(_reverse_complement(g.val))}
        /\ \E t \in {_get_target(Self, augmented_indices_map[lastItem.key])} :
              t.err = "none" /\ lastItem.y = t.val

\* without the random reverse complement, or when the coin says no, the call
\* fails only as get_sequence or the target lookup fails
C12_FailsOnlyOnComplementedArray ==
    (Built /\ lastItem # NoItem /\ lastItem.err = "AttributeError") =>
        random_reverse_complement /\ lastItem.coin

(***************************************************************************)
(* The generator AnnDataset.__call__: a caller invokes the dataset, takes  *)
(* samples from the generator with next() until it ends, and invokes the   *)
(* dataset again.                                                          *)
(***************************************************************************)
MaxPasses == 2

\* the region lists of the datasets that are iterated
GeneratorLists ==
    {<<UnstrandedRegion(Chr1, stride, stride + DatasetRegionLen)>>,
     <<UnstrandedRegion(Chr1, stride, stride + DatasetRegionLen),
       UnstrandedRegion(Chr1, 2 * stride, 2 * stride + DatasetRegionLen)>>,
     <<StrandedRegion(Chr1, 2 * stride, 2 * stride + DatasetRegionLen, <<"-">>)>>}

\* the constructor's arguments, and the shuffle flag the data loader sets
InitGenerator ==
    /\ chromLen = DatasetChromLen
    /\ chromsizes = [c \in {Chr1} |-> chromLen]
    /\ always_reverse_complement \in BOOLEAN
    /\ deterministic_shift = FALSE
    /\ shuffle \in BOOLEAN
    /\ in_memory = FALSE
    /\ max_stochastic_shift = 0
    /\ random_reverse_complement \in BOOLEAN
    /\ \E names \in GeneratorLists : adata = PlainAdata(names)
    /\ split = "None"
    /\ constructed = "no"
    /\ anndata = [var_names |-> <<>>, X |-> <<>>]
    /\ indices = <<>>
    /\ index_map = EmptyDict
    /\ sequences = EmptyDict
    /\ fetches = {}
    /\ augmented_indices = <<>>
    /\ augmented_indices_map = EmptyDict
    /\ origins = <<>>
    /\ augmented_probs = [none |-> TRUE, val |-> <<>>]
    /\ lastCall = NoCall
    /\ shuffle_i = 0
    /\ lastItem = NoItem
    /\ NoMeta
    /\ NoGenerator
    /\ NoComplement
    /\ NoVarp
    /\ NoSwap
    /\ NoSecond

\* dataset(): a generator object is created; none of its body runs yet
Call ==
    /\ constructed = "ok"
    /\ generator \notin {"created", "suspended"}
    /\ passes < MaxPasses
    /\ generator' = "created"
    /\ gen_i' = 0
    /\ gen_len' = 0
    /\ yielded' = <<>>
    /\ pass_shuffles' = 0
    /\ passes' = passes + 1
    /\ UNCHANGED <<loaderVars, datasetVars, metaVars, complementVars, varpVars, swapVars, secondVars>>

\* np.random.shuffle(x) that ended with the permutation p: the list afterwards
Permuted(x, p) == [k \in 1..Len(x) |-> x[p[k]]]

\* the permutations shuffle_indices can end with
Shuffles(n) == Permutations(1..n)

\* yield self.__getitem__(i): the generator suspends with the sample handed
\* out, or ends with the exception __getitem__ raised
Yield(i, item) ==
    /\ gen_i' = i
    /\ lastItem' = item
    /\ fetches' = item.calls
    /\ generator' = IF item.err = "none" THEN "suspended" ELSE item.err
    /\ yielded' = IF item.err = "none"
                  THEN Append(yielded, [idx |-> i, key |-> item.key])
                  ELSE yielded

\* the first next() with shuffle set: i == 0, so shuffle_indices() runs, then
\* the first sample is read from the shuffled list
ShuffledStart(p) ==
    /\ augmented_indices' = Permuted(augmented_indices, p)
    /\ origins' = Permuted(origins, p)
    /\ pass_shuffles' = pass_shuffles + 1
    /\ \E shift \in ItemShifts :
       \E coin \in ItemCoins :
          Yield(0, __getitem__([Self EXCEPT !.augmented_indices =
                                                Permuted(augmented_indices, p)],
                               0, shift, coin))

\* the first next() without shuffle
PlainStart ==
    /\ UNCHANGED <<augmented_indices, origins, pass_shuffles>>
    /\ \E shift \in ItemShifts :
       \E coin \in ItemCoins :
          Yield(0, __getitem__(Self, 0, shift, coin))

\* the first next() on the generator: range(len(self)) is evaluated and the
\* body runs up to its first yield
GeneratorStart ==
    /\ generator = "created"
    /\ gen_len' = DatasetLen(Self)
    /\ IF DatasetLen(Self) = 0
       THEN /\ generator' = "done"
            /\ UNCHANGED <<gen_i, yielded, pass_shuffles, augmented_indices, origins,
                           lastItem, fetches>>
       ELSE IF shuffle
       THEN \E p \in Shuffles(DatasetLen(Self)) : ShuffledStart(p)
       ELSE PlainStart
    /\ UNCHANGED <<constructed, chromLen, chromsizes, max_stochastic_shift, in_memory,
                   always_reverse_complement, deterministic_shift, indices, sequences,
                   lastCall>>
    /\ UNCHANGED <<adata, split, anndata, index_map, random_reverse_complement, shuffle,
                   augmented_indices_map, augmented_probs, shuffle_i>>
    /\ UNCHANGED <<passes, metaVars, complementVars, varpVars, swapVars, secondVars>>

\* a later next(): the loop moves on to i + 1 and yields that sample, or the
\* range is exhausted and the generator ends (StopIteration)
GeneratorResume ==
    /\ generator = "suspended"
    /\ IF gen_i + 1 >= gen_len
       THEN /\ generator' = "done"
            /\ UNCHANGED <<gen_i, yielded, lastItem, fetches>>
       ELSE \E shift \in ItemShifts :
            \E coin \in ItemCoins :
               Yield(gen_i + 1, __getitem__(Self, gen_i + 1, shift, coin))
    /\ UNCHANGED <<constructed, chromLen, chromsizes, max_stochastic_shift, in_memory,
                   always_reverse_complement, deterministic_shift, indices, sequences,
                   lastCall>>
    /\ UNCHANGED <<adata, split, anndata, index_map, random_reverse_complement, shuffle,
                   augmented_indices, augmented_indices_map, origins, augmented_probs,
                   shuffle_i>>
    /\ UNCHANGED <<gen_len, pass_shuffles, passes, metaVars, complementVars, varpVars, swapVars, secondVars>>

NextGenerator == Construct \/ Call \/ GeneratorStart \/ GeneratorResume

SpecGenerator == InitGenerator /\ [][NextGenerator]_vars

(***************************************************************************)
(* Properties of the generator (checked under SpecGenerator).              *)
(***************************************************************************)
\* the pass of the generator is as far as a pass over positions 0, 1, ... gets
PassInOrder ==
    /\ \A k \in 1..Len(yielded) :
          /\ yielded[k].idx = k - 1
          /\ yielded[k].key = augmented_indices[k]
    /\ generator \in {"suspended", "done"} =>
          /\ gen_len = Len(augmented_indices)
          /\ pass_shuffles = IF shuffle THEN 1 ELSE 0
    /\ generator = "suspended" => Len(yielded) = gen_i + 1
    /\ generator = "done" => Len(yielded) = Len(augmented_indices)

\* C13: each invocation of the generator yields exactly len(dataset) samples,
\* for positions 0, 1, ..., len - 1 in that order, and then terminates; with
\* shuffle set the augmented indices are reshuffled once per pass, before the
\* first sample, and without shuffle no pass changes the order.
C13_PassYieldsEverySample ==
    /\ generator \in {"none", "created", "suspended", "done"}
    /\ PassInOrder

\* a pass over a dataset without the random reverse complement is as claimed
C13_PassWithoutRandomComplement ==
    ~random_reverse_complement => C13_PassYieldsEverySample

\* the order changes only in the first next() of a pass, and only with shuffle
C13_OrderChangesAtStartOnly ==
    [][augmented_indices' # augmented_indices =>
          /\ constructed = "no" \/ (shuffle /\ generator = "created")
          /\ yielded = <<>>]_vars

\* every next() after the first moves the pass on by one position inside the
\* range, so a pass ends after at most len(dataset) + 1 calls of next()
C13_PassAdvances ==
    [][(generator = "suspended" /\ <<generator, gen_i>>' # <<generator, gen_i>>) =>
          IF gen_i + 1 = gen_len
          THEN generator' = "done"
          ELSE gen_i' = gen_i + 1 /\ gen_i' < gen_len /\ generator' # "done"]_vars

(***************************************************************************)
(* Further properties of the AnnDataset and its loader (checked under      *)
(* Spec).                                                                  *)
(***************************************************************************)
\* C14: a __getitem__ call, with the get_sequence call it makes, writes no
\* shared state: augmented_indices (content and order), augmented_indices_map,
\* the region list, index_map, augmented_probs and the sequence cache are as
\* before the call; the sequence cache is unchanged by every operation once
\* the dataset is constructed.
C14_RetrievalWritesNothing ==
    [][Built =>
          /\ sequences' = sequences
          /\ lastItem' # lastItem =>
                UNCHANGED <<augmented_indices, augmented_indices_map, indices, index_map,
                            augmented_probs, anndata>>]_vars

\* a sample was read from a cached dataset of four augmented keys
C14_Witness ==
    /\ Built /\ in_memory
    /\ Len(augmented_indices) = 4
    /\ DOMAIN sequences = {augmented_indices[i] : i \in 1..4}
    /\ lastItem # NoItem
    /\ lastItem.idx = 3
    /\ lastItem.err = "none"
    /\ lastItem.key = augmented_indices[4]

\* the region list the constructor is given: the columns kept by the split
GivenRegions == _split_anndata(adata, split).val.var_names

\* the list holds a region with a strand and a region without one
MixedRegions(names) ==
    \E i, j \in 1..Len(names) : MatchesStranded(names[i]) /\ MatchesUnstranded(names[j])

\* C15: constructing a dataset over a region list with at least one stranded
\* and at least one unstranded region fails at construction, for every order of
\* the regions and for in_memory=True and in_memory=False.
C15_MixedRegionsRejected ==
    (constructed # "no" /\ MixedRegions(GivenRegions)) => ~Built

\* with the sequences loaded into memory a mixed list is rejected in either order
C15_RejectedInMemory ==
    (constructed # "no" /\ MixedRegions(GivenRegions) /\ in_memory) =>
        constructed = "ValueError"

(***************************************************************************)
(* Further properties of the SequenceLoader (checked under SpecLoader).    *)
(***************************************************************************)
\* a call on a region closer than max_stochastic_shift to the chromosome's
\* start, on a loader without chromosome sizes
CallAtStart ==
    /\ Served
    /\ chromsizes = EmptyDict
    /\ CallP.start < max_stochastic_shift

\* C16: for a region with start < max_stochastic_shift and no chrom-size table
\* the requested window [start - m, end + m) is clamped to [0, end + m), so
\* fewer than (end - start) + 2m bases are fetched, and the result still has
\* end - start characters (padded with N where the crop is short).
C16_WindowClampedAtStart ==
    CallAtStart =>
      /\ lastCall.err = "none"
      /\ Len(lastCall.extended) < CallLen + 2 * max_stochastic_shift
      /\ (~in_memory =>
            fetches = {[chrom |-> Chr1, start |-> 0,
                        end |-> CallP.end + max_stochastic_shift]})
      /\ Len(lastCall.val) = CallLen

\* what the loader does at the chromosome's start: the window keeps its length
\* (end - start) + 2m and starts at 0, so the crop of shift s is the bases of
\* [m + s, m + s + end - start) and not those of [start + s, end + s)
C16_WindowSlidAtStart ==
    (CallAtStart /\ ~in_memory) =>
      /\ lastCall.err = "none"
      /\ fetches = {[chrom |-> Chr1, start |-> 0,
                     end |-> CallLen + 2 * max_stochastic_shift]}
      /\ Len(lastCall.val) = CallLen

(***************************************************************************)
(* The cache and the augmented keys (checked under Spec).                  *)
(***************************************************************************)
\* the set of keys in augmented_indices
AugmentedKeys == {augmented_indices[i] : i \in 1..Len(augmented_indices)}

\* C17: when in_memory=True and construction succeeds, the keys of the
\* SequenceLoader cache are the augmented keys of the IndexManager, before and
\* after any shuffles, and __getitem__(i) for i in [0, len(dataset)) finds its
\* sequence in the cache: it raises no lookup error.
C17_CacheKeysAreAugmentedKeys ==
    (Built /\ in_memory) =>
        /\ DOMAIN sequences = AugmentedKeys
        /\ lastItem # NoItem =>
              /\ lastItem.key \in DOMAIN sequences
              /\ lastItem.err \notin {"KeyError", "IndexError"}
              /\ lastItem.calls = {}

\* the last key of a cached dataset with both augmentations was read
C17_Witness ==
    /\ Built /\ in_memory
    /\ always_reverse_complement /\ deterministic_shift
    /\ Cardinality(DOMAIN sequences) = 2 * (2 * n_shifts + 1)
    /\ lastItem # NoItem
    /\ lastItem.err = "none"
    /\ lastItem.idx = Len(augmented_indices) - 1

\* a key of a cached dataset was read after a shuffle that reordered the keys
C17_ShuffledWitness ==
    /\ Built /\ in_memory /\ shuffle
    /\ origins = <<2, 1, 2, 1>>
    /\ lastItem # NoItem
    /\ lastItem.err = "none"
    /\ lastItem.key \in DOMAIN sequences

(***************************************************************************)
(* The window and the padding of get_sequence (checked under SpecLoader).  *)
(***************************************************************************)
\* a call on a region inside a chromosome that is in the size table and has
\* room for the extended window
CallWithRoom ==
    /\ Served
    /\ Chr1 \in DOMAIN chromsizes
    /\ chromsizes[Chr1] >= CallLen + 2 * max_stochastic_shift
    /\ CallP.end <= chromsizes[Chr1]

\* the crop of the last call: characters [m + shift, m + shift + end - start)
\* of its extended sequence
CallCrop ==
    PySlice(lastCall.extended, max_stochastic_shift + lastCall.shift,
            max_stochastic_shift + lastCall.shift + CallLen)

\* C18: with the chromosome in the size table and at least
\* (end - start) + 2m long, the window fetched for a region inside the
\* chromosome has exactly (end - start) + 2m bases and lies inside the
\* chromosome (it is moved, never shortened), so for every shift in [-m, m] the
\* crop lies inside the window and the result is the crop, without padding.
C18_FullWindowNoPadding ==
    CallWithRoom =>
      /\ lastCall.err = "none"
      /\ Len(lastCall.extended) = CallLen + 2 * max_stochastic_shift
      /\ (~in_memory =>
            /\ fetches # {}
            /\ \A c \in fetches :
                  /\ c.start >= 0
                  /\ c.end <= chromsizes[Chr1]
                  /\ c.end - c.start = CallLen + 2 * max_stochastic_shift)
      /\ max_stochastic_shift + lastCall.shift >= 0
      /\ max_stochastic_shift + lastCall.shift + CallLen <= Len(lastCall.extended)
      /\ Len(CallCrop) = CallLen
      /\ lastCall.val = CallCrop

\* the last base of a chromosome of five bases, with a window moved left by one
C18_Witness ==
    /\ CallWithRoom
    /\ ~in_memory
    /\ chromLen = 5
    /\ max_stochastic_shift = 1
    /\ lastCall.region = UnstrandedRegion(Chr1, 4, 5)
    /\ lastCall.shift = -1
    /\ fetches = {[chrom |-> Chr1, start |-> 2, end |-> 5]}
    /\ lastCall.extended = <<"G", "T", "N">>
    /\ lastCall.val = <<"G">>

\* n times the character N
Ns(n) == [i \in 1..n |-> "N"]

\* C19: when the crop of the extended sequence has fewer than end - start
\* characters, get_sequence returns the available bases followed by Ns on the
\* + strand and Ns followed by the available bases on the - strand: exactly
\* end - start characters, the available bases unchanged and contiguous.
C19_PaddedByStrand ==
    (Served /\ lastCall.err = "none" /\ Len(CallCrop) < CallLen) =>
      /\ Len(lastCall.val) = CallLen
      /\ CallP.strand = <<"+">> =>
            lastCall.val = CallCrop \o Ns(CallLen - Len(CallCrop))
      /\ CallP.strand = <<"-">> =>
            lastCall.val = Ns(CallLen - Len(CallCrop)) \o CallCrop

\* one base of a - strand region of two bases lies past the chromosome's end
C19_Witness ==
    /\ Served /\ lastCall.err = "none"
    /\ chromsizes = EmptyDict
    /\ chromLen = 3
    /\ max_stochastic_shift = 0
    /\ lastCall.region = StrandedRegion(Chr1, 2, 4, <<"-">>)
    /\ CallCrop = <<"C">>
    /\ lastCall.val = <<"N", "C">>

\* the same region on the + strand
C19_PlusWitness ==
    /\ Served /\ lastCall.err = "none"
    /\ chromsizes = EmptyDict
    /\ chromLen = 3
    /\ max_stochastic_shift = 0
    /\ lastCall.region = StrandedRegion(Chr1, 2, 4, <<"+">>)
    /\ lastCall.val = <<"G", "N">>

(***************************************************************************)
(* _reverse_complement on its own: a DNA string is reverse complemented,   *)
(* and the result is reverse complemented again.                           *)
(***************************************************************************)
MaxSeqLen == 3

MaxApplied == 3

\* the alphabet of the sequences
Alphabet == {"A", "C", "G", "T", "N"}

\* the strings over the alphabet of at most MaxSeqLen characters
DnaStrings == UNION {[1..n -> Alphabet] : n \in 0..MaxSeqLen}

\* a loader without regions, and a string to reverse complement
InitComplement ==
    /\ chromLen = MaxChromLen
    /\ chromsizes = EmptyDict
    /\ max_stochastic_shift = 0
    /\ in_memory = FALSE
    /\ always_reverse_complement = FALSE
    /\ deterministic_shift = FALSE
    /\ indices = <<>>
    /\ LoaderBuilt(SequenceLoaderInit(indices))
    /\ lastCall = NoCall
    /\ NoDataset
    /\ NoMeta
    /\ NoGenerator
    /\ NoVarp
    /\ NoSwap
    /\ NoSecond
    /\ rc_sequence \in DnaStrings
    /\ rc_result = rc_sequence
    /\ rc_applied = 0

\* _reverse_complement is applied to the result of the application before
ReverseComplement ==
    /\ constructed = "ok"
    /\ rc_applied < MaxApplied
    /\ rc_result' = _reverse_complement(rc_result)
    /\ rc_applied' = rc_applied + 1
    /\ UNCHANGED <<rc_sequence, loaderVars, datasetVars, metaVars, generatorVars, varpVars,
                   swapVars, secondVars>>

NextComplement == ReverseComplement

SpecComplement == InitComplement /\ [][NextComplement]_vars

\* C20: reverse complementing twice returns the original sequence, for every
\* string over {A, C, G, T, N}, and a reverse complement has the length of its
\* argument.
C20_ReverseComplementInvolution ==
    /\ Len(rc_result) = Len(rc_sequence)
    /\ rc_applied = 2 => rc_result = rc_sequence
    /\ rc_applied = 1 => _reverse_complement(rc_result) = rc_sequence

\* ACN was reverse complemented to NGT and back
C20_Witness ==
    /\ rc_sequence = <<"A", "C", "N">>
    /\ rc_applied = 2
    /\ rc_result = <<"A", "C", "N">>
    /\ _reverse_complement(rc_sequence) = <<"N", "G", "T">>

(***************************************************************************)
(* The split of the annotated data (checked under Spec).                   *)
(***************************************************************************)
\* the columns of the caller's AnnData whose split label is the requested split
SplitColumns == {j \in 1..Len(adata.var_names) : adata.split_col[j] = split}

\* the position of column j among the kept columns
SplitRank(j) == Cardinality({k \in SplitColumns : k <= j})

\* C21: when a split is requested and var has no split column, construction
\* fails with KeyError before any sequence is loaded or any index is built; when
\* the column exists, the logical regions are the regions whose label is the
\* requested split, in their original order, and index_map maps each to its
\* column of the filtered target matrix.
C21_SplitKeepsLabelledRegions ==
    /\ (constructed # "no" /\ split # "None" /\ ~adata.has_split) =>
          /\ constructed = "KeyError"
          /\ fetches = {}
          /\ sequences = EmptyDict
          /\ indices = <<>>
          /\ augmented_indices = <<>>
          /\ augmented_indices_map = EmptyDict
    /\ (Built /\ split # "None" /\ adata.has_split) =>
          /\ Len(indices) = Cardinality(SplitColumns)
          /\ Len(anndata.X) = Cardinality(SplitColumns)
          /\ \A j \in SplitColumns :
                /\ indices[SplitRank(j)] = adata.var_names[j]
                /\ anndata.X[SplitRank(j)] = adata.X[j]
          /\ \A i \in 1..Len(indices) : index_map[indices[i]] = i - 1

\* the second of two regions is the only one in the requested split
C21_Witness ==
    /\ Built
    /\ split = "train"
    /\ adata.has_split
    /\ Len(adata.var_names) = 2
    /\ adata.split_col = <<"val", "train">>
    /\ indices = <<adata.var_names[2]>>
    /\ index_map[adata.var_names[2]] = 0
    /\ anndata.X = <<TargetOf(2)>>

\* a split was requested from annotated data without a split column
C21_NoColumnWitness ==
    /\ constructed = "KeyError"
    /\ split = "train"
    /\ ~adata.has_split

(***************************************************************************)
(* The legacy AnnDataset of src/src/crested/tl/_dataloader.py: it keeps    *)
(* its own sequences, augments its indices itself and shuffles the logical *)
(* region list. Its fields are held in the variables of the same names.    *)
(***************************************************************************)
LegacyNoSequence == [err |-> "ValueError", val |-> <<>>]

\* self.genome.fetch(chrom, int(start), int(end))
LegacyFetchInts(chrom, s, e) ==
    IF s.err # "none" \/ e.err # "none" THEN LegacyNoSequence
    ELSE Fetch(chrom, s.val, e.val)

\* start, end = start_end.split("-"): exactly two parts
LegacyFetchStartEnd(chrom, se) ==
    IF Len(se) # 2 THEN LegacyNoSequence
    ELSE LegacyFetchInts(chrom, PyInt(se[1]), PyInt(se[2]))

\* chrom, start_end = region.split(":"): exactly two parts
LegacyFetchParts(parts) ==
    IF Len(parts) # 2 THEN LegacyNoSequence
    ELSE LegacyFetchStartEnd(parts[1], PySplit(parts[2], "-"))

\* the legacy _get_sequence(region)
Legacy_get_sequence(region) == LegacyFetchParts(PySplit(region, ":"))

\* f"{region}:+" and f"{region}:-"
PlusKey(region) == region \o <<":", "+">>

MinusKey(region) == region \o <<":", "-">>

\* the region a key f"{region}:{strand}" was formatted from
RegionOfKey(key) == SubSeq(key, 1, Len(key) - 2)

\* the keys the legacy class derives from the regions
LegacyKeys(regions) ==
    {PlusKey(regions[i]) : i \in 1..Len(regions)}
    \cup (IF always_reverse_complement
          THEN {MinusKey(regions[i]) : i \in 1..Len(regions)} ELSE {})

\* the loop that loads the sequences into memory: the first region whose
\* _get_sequence raises ends it
LegacyLoadError(regions) ==
    IF \A i \in 1..Len(regions) : Legacy_get_sequence(regions[i]).err = "none"
    THEN "none"
    ELSE Legacy_get_sequence(
             regions[CHOOSE i \in 1..Len(regions) :
                        /\ Legacy_get_sequence(regions[i]).err # "none"
                        /\ \A k \in 1..(i - 1) :
                              Legacy_get_sequence(regions[k]).err = "none"]).err

\* self.sequences after the loop: region:+ holds the fetched sequence and
\* region:- its reverse complement
LegacySequences(regions) ==
    [key \in LegacyKeys(regions) |->
        IF key[Len(key)] = "+" THEN Legacy_get_sequence(RegionOfKey(key)).val
        ELSE _reverse_complement(Legacy_get_sequence(RegionOfKey(key)).val)]

\* the legacy _augment_indices(indices): the list
LegacyAugmentedList(regions) ==
    IF always_reverse_complement
    THEN [k \in 1..(2 * Len(regions)) |->
            IF k % 2 = 1 THEN PlusKey(regions[(k + 1) \div 2])
            ELSE MinusKey(regions[k \div 2])]
    ELSE [k \in 1..Len(regions) |-> PlusKey(regions[k])]

\* the legacy _augment_indices(indices): the map
LegacyAugmentedMap(regions) == [key \in LegacyKeys(regions) |-> RegionOfKey(key)]

\* the fields the legacy constructor leaves behind, or the exception it raises
LegacyBuilt(e, names, seqs) ==
    /\ constructed' = IF e = "none" THEN "ok" ELSE e
    /\ anndata' = IF e = "none" THEN [var_names |-> names, X |-> adata.X]
                  ELSE [var_names |-> <<>>, X |-> <<>>]
    /\ indices' = IF e = "none" THEN names ELSE <<>>
    /\ index_map' = IF e = "none" THEN IndexMap(names) ELSE EmptyDict
    /\ sequences' = IF e = "none" THEN seqs ELSE EmptyDict
    /\ augmented_indices' = IF e = "none" THEN LegacyAugmentedList(names) ELSE <<>>
    /\ augmented_indices_map' = IF e = "none" THEN LegacyAugmentedMap(names) ELSE EmptyDict

\* the legacy AnnDataset.__init__ over the regions names
LegacyInit(names) ==
    IF random_reverse_complement /\ always_reverse_complement
    THEN LegacyBuilt("ValueError", names, EmptyDict)
    ELSE IF in_memory
    THEN LegacyBuilt(LegacyLoadError(names), names, LegacySequences(names))
    ELSE LegacyBuilt("none", names, EmptyDict)

\* the constructor's arguments, and the shuffle flag the data loader sets
InitLegacy ==
    /\ chromLen = DatasetChromLen
    /\ chromsizes = EmptyDict
    /\ always_reverse_complement \in BOOLEAN
    /\ random_reverse_complement \in BOOLEAN
    /\ in_memory \in BOOLEAN
    /\ shuffle \in BOOLEAN
    /\ deterministic_shift = FALSE
    /\ max_stochastic_shift = 0
    /\ \E names \in RegionLists : adata = PlainAdata(names)
    /\ split = "None"
    /\ constructed = "no"
    /\ anndata = [var_names |-> <<>>, X |-> <<>>]
    /\ indices = <<>>
    /\ index_map = EmptyDict
    /\ sequences = EmptyDict
    /\ fetches = {}
    /\ augmented_indices = <<>>
    /\ augmented_indices_map = EmptyDict
    /\ origins = <<>>
    /\ augmented_probs = [none |-> TRUE, val |-> <<>>]
    /\ lastCall = NoCall
    /\ shuffle_i = 0
    /\ lastItem = NoItem
    /\ NoMeta
    /\ NoGenerator
    /\ NoComplement
    /\ NoVarp
    /\ NoSwap
    /\ NoSecond

\* the legacy AnnDataset(...) runs
LegacyConstruct ==
    /\ constructed = "no"
    /\ LegacyInit(adata.var_names)
    /\ UNCHANGED <<chromLen, chromsizes, max_stochastic_shift, in_memory,
                   always_reverse_complement, deterministic_shift, fetches, lastCall>>
    /\ UNCHANGED <<adata, split, random_reverse_complement, shuffle, origins,
                   augmented_probs, shuffle_i, lastItem>>
    /\ UNCHANGED <<metaVars, generatorVars, complementVars, varpVars, swapVars, secondVars>>

\* the legacy _shuffle_indices: np.random.shuffle(self.indices) ends with the
\* permutation p, then the augmented list and map are built again
LegacyShuffle ==
    /\ constructed = "ok"
    /\ shuffle
    /\ lastItem = NoItem
    /\ \E p \in Shuffles(Len(indices)) :
          /\ indices' = Permuted(indices, p)
          /\ augmented_indices' = LegacyAugmentedList(Permuted(indices, p))
          /\ augmented_indices_map' = LegacyAugmentedMap(Permuted(indices, p))
    /\ UNCHANGED <<constructed, chromLen, chromsizes, max_stochastic_shift, in_memory,
                   always_reverse_complement, deterministic_shift, sequences, fetches,
                   lastCall>>
    /\ UNCHANGED <<adata, split, anndata, index_map, random_reverse_complement, shuffle,
                   origins, augmented_probs, shuffle_i, lastItem>>
    /\ UNCHANGED <<metaVars, generatorVars, complementVars, varpVars, swapVars, secondVars>>

\* a target lookup by the region's position in the shuffled region list
Legacy_get_target_ByPosition(index) ==
    anndata.X[CHOOSE i \in 1..Len(indices) : indices[i] = index]

\* the legacy _get_target(index): the column of X that index_map names
Legacy_get_target(index) == anndata.X[index_map[index] + 1]

\* x after the random reverse complement, and y
LegacyItem(idx, key, coin, x) ==
    IF x.err # "none"
    THEN NoItemBut(idx, key, 0, coin, x.err, {})
    ELSE [idx |-> idx, key |-> key, shift |-> 0, coin |-> coin, err |-> "none",
          sequence |-> IF random_reverse_complement /\ coin
                       THEN _reverse_complement(x.val) ELSE x.val,
          bases |-> x.val,
          y |-> Legacy_get_target(augmented_indices_map[key]),
          calls |-> {}]

\* x read from the genome for the key's region, reverse complemented for a - key
LegacyFromGenome(key, g) ==
    IF g.err # "none" \/ key[Len(key)] # "-" THEN g
    ELSE [err |-> "none", val |-> _reverse_complement(g.val)]

\* the legacy __getitem__(idx)
Legacy__getitem__(idx, key, coin) ==
    IF in_memory
    THEN LegacyItem(idx, key, coin, [err |-> "none", val |-> sequences[key]])
    ELSE LegacyItem(idx, key, coin,
                    LegacyFromGenome(key, Legacy_get_sequence(augmented_indices_map[key])))

\* a caller calls the legacy __getitem__(idx)
LegacyGetItem ==
    /\ constructed = "ok"
    /\ lastItem = NoItem
    /\ \E idx \in 0..(Len(augmented_indices) - 1) :
       \E coin \in ItemCoins :
          lastItem' = Legacy__getitem__(idx, augmented_indices[idx + 1], coin)
    /\ UNCHANGED <<loaderVars, adata, split, anndata, index_map, random_reverse_complement,
                   shuffle, augmented_indices, augmented_indices_map, origins,
                   augmented_probs, shuffle_i>>
    /\ UNCHANGED <<metaVars, generatorVars, complementVars, varpVars, swapVars, secondVars>>

\* the caller takes the item
LegacyReturnItem ==
    /\ lastItem # NoItem
    /\ lastItem' = NoItem
    /\ UNCHANGED <<loaderVars, adata, split, anndata, index_map, random_reverse_complement,
                   shuffle, augmented_indices, augmented_indices_map, origins,
                   augmented_probs, shuffle_i>>
    /\ UNCHANGED <<metaVars, generatorVars, complementVars, varpVars, swapVars, secondVars>>

NextLegacy == LegacyConstruct \/ LegacyShuffle \/ LegacyGetItem \/ LegacyReturnItem

SpecLegacy == InitLegacy /\ [][NextLegacy]_vars

(***************************************************************************)
(* Properties of the legacy AnnDataset (checked under SpecLegacy).         *)
(***************************************************************************)
\* C22: in the legacy AnnDataset, after any number of _shuffle_indices calls
\* the multiset of augmented keys and the key-to-region mapping are those built
\* at construction, every augmented key still has its in-memory sequence, and
\* _get_target(region) returns the region's own column of X for every region.
C22_LegacyShuffleKeepsContent ==
    Built =>
      /\ KeyBag(augmented_indices) = KeyBag(LegacyAugmentedList(anndata.var_names))
      /\ augmented_indices_map = LegacyAugmentedMap(anndata.var_names)
      /\ KeyBag(indices) = KeyBag(anndata.var_names)
      /\ in_memory =>
            \A k \in 1..Len(augmented_indices) :
                /\ augmented_indices[k] \in DOMAIN sequences
                /\ sequences[augmented_indices[k]]
                     = LegacySequences(anndata.var_names)[augmented_indices[k]]
      /\ \A j \in 1..Len(anndata.var_names) :
            Legacy_get_target(anndata.var_names[j]) = anndata.X[j]
      /\ (lastItem # NoItem /\ lastItem.err = "none") =>
            \E j \in 1..Len(anndata.var_names) :
                /\ anndata.var_names[j] = augmented_indices_map[lastItem.key]
                /\ lastItem.y = anndata.X[j]

\* two cached regions with their reverse complements, the region list
\* shuffled into the other order, and the sample of the second region read
C22_Witness ==
    /\ Built /\ shuffle /\ in_memory /\ always_reverse_complement
    /\ Len(indices) = 2
    /\ indices = <<anndata.var_names[2], anndata.var_names[1]>>
    /\ augmented_indices[1] = PlusKey(anndata.var_names[2])
    /\ lastItem # NoItem
    /\ lastItem.idx = 0
    /\ lastItem.err = "none"
    /\ lastItem.y = TargetOf(2)

(***************************************************************************)
(* The sequence of a region and its strands (checked under SpecLoader).    *)
(***************************************************************************)
\* an unshifted call on a + strand or unstranded region inside the chromosome
UnshiftedCallInside ==
    /\ Served
    /\ CallP.strand = <<"+">>
    /\ lastCall.shift = 0
    /\ CallP.end <= chromLen

\* C23: for every region inside the chromosome, also closer than
\* max_stochastic_shift to its start or end, get_sequence(region on the + strand,
\* shift = 0) returns the upper-cased genome bases of [start, end), for every
\* max_stochastic_shift and with or without a chrom-size table.
C23_UnshiftedIsRegion ==
    UnshiftedCallInside =>
      /\ lastCall.err = "none"
      /\ lastCall.val = UpperGenome(CallP.start, CallLen)

\* the unshifted calls that return other bases, or nothing, are those whose
\* window was moved: at the chromosome's start, or at its end when the
\* chromosome is in the size table
C23_WrongOnlyWhereWindowMoved ==
    (UnshiftedCallInside
       /\ ~(lastCall.err = "none" /\ lastCall.val = UpperGenome(CallP.start, CallLen))) =>
      \/ CallP.start < max_stochastic_shift
      \/ /\ Chr1 \in DOMAIN chromsizes
         /\ CallP.end + max_stochastic_shift > chromsizes[Chr1]

\* a served call on a - strand region whose + strand the loader can serve too
MinusCall ==
    /\ Served
    /\ lastCall.err = "none"
    /\ CallP.strand = <<"-">>
    /\ in_memory => _flip_region_strand(CallKey) \in DOMAIN sequences

\* get_sequence(region:+, -s) for the region and the shift s of the last call
PlusOfCall == get_sequence(_flip_region_strand(CallKey), "True", 0 - lastCall.shift)

\* C24: for every region and every shift s in [-m, m], get_sequence(region:-, s)
\* is the reverse complement of get_sequence(region:+, -s), with and without a
\* chrom-size table, also when the fetched window is cut short at a chromosome
\* end and N padding is applied.
C24_StrandsShiftConsistently ==
    MinusCall =>
      \E g \in {PlusOfCall} :
         /\ g.err = "none"
         /\ lastCall.val = _reverse_complement(g.val)

\* the strands agree whenever the window fetched has its full length
\* (end - start) + 2m
C24_ConsistentOnFullWindow ==
    (MinusCall /\ Len(lastCall.extended) = CallLen + 2 * max_stochastic_shift) =>
      \E g \in {PlusOfCall} :
         /\ g.err = "none"
         /\ lastCall.val = _reverse_complement(g.val)

(***************************************************************************)
(* The cache against the genome (checked under Spec).                      *)
(***************************************************************************)
\* what a loader with in_memory=False returns for the stranded region parsed
\* as p: the crop of the window it fetches from the genome
OnDemandParsed(p, shift) ==
    IF p.err # "none" THEN NoSequence(p.err, {})
    ELSE Cropped(FromGenome(_get_extended_sequence(p.chrom, p.start, p.end, p.strand)),
                 p, shift)

\* C25: for every augmented key and every shift in [-m, m], get_sequence on a
\* loader built with in_memory=True returns the string a loader built with
\* in_memory=False returns over the same genome, regions and flags.
C25_CacheAgreesWithGenome ==
    (Built /\ in_memory /\ lastItem # NoItem) =>
      \E c \in {get_sequence(lastItem.key, "True", lastItem.shift)} :
      \E g \in {OnDemandParsed(ParseRegion(lastItem.key), lastItem.shift)} :
         /\ c.err = g.err
         /\ c.val = g.val
         /\ lastItem.err = "none" => lastItem.bases = g.val

\* the reverse complement of a shifted variant of a region, read with a shift
\* from a cached dataset
C25_Witness ==
    /\ Built /\ in_memory
    /\ always_reverse_complement /\ deterministic_shift
    /\ max_stochastic_shift = 1
    /\ lastItem # NoItem
    /\ lastItem.err = "none"
    /\ lastItem.shift = -1
    /\ lastItem.key = StrandedRegion(Chr1, 3 * stride, 3 * stride + DatasetRegionLen, <<"-">>)
    /\ lastItem.bases = OnDemandParsed(ParseRegion(lastItem.key), -1).val
    /\ Len(lastItem.bases) = DatasetRegionLen

(***************************************************************************)
(* The MetaAnnDataset over datasets that are shuffled after the merge:     *)
(* datasets without augmentation, so that every region has one key.        *)
(***************************************************************************)
InitMetaShuffle ==
    /\ InitMeta
    /\ ~always_reverse_complement
    /\ ~deterministic_shift

\* datasets[d].index_manager.shuffle_indices() ends with the permutation p
ShuffledDataset(d, p) ==
    datasets' = [datasets EXCEPT
                   ![d].augmented_indices = Permuted(datasets[d].augmented_indices, p)]

\* the owner of one of the merged datasets shuffles its augmented indices
ShuffleDataset ==
    /\ metaConstructed = "ok"
    /\ lastMetaItem = NoMetaItem
    /\ \E d \in 1..Len(datasets) :
       \E p \in Shuffles(DatasetLen(datasets[d])) :
          ShuffledDataset(d, p)
    /\ UNCHANGED <<loaderVars, datasetVars>>
    /\ UNCHANGED <<metaConstructed, global_indices, global_probs, lastMetaItem>>
    /\ UNCHANGED <<generatorVars, complementVars, varpVars, swapVars, secondVars>>

NextMetaShuffle ==
    AddDataset \/ ConstructMeta \/ ShuffleDataset \/ MetaGetItem \/ ReturnMetaItem

SpecMetaShuffle == InitMetaShuffle /\ [][NextMetaShuffle]_vars

(***************************************************************************)
(* Properties of the shuffled MetaAnnDataset (checked under                *)
(* SpecMetaShuffle).                                                       *)
(***************************************************************************)
\* the weight of the logical region of the dataset ds: without augmentation
\* the constructor stored it at the region's column
RegionWeight(ds, region) ==
    IF ds.augmented_probs.none THEN One
    ELSE ds.augmented_probs.val[ds.index_map[region] + 1]

\* the normalized weight of the region of the sample that the last
\* MetaAnnDataset.__getitem__ call returned
ReturnedWeight ==
    RegionWeight(datasets[DatasetOfGlobal(lastMetaItem.global_idx)],
                 datasets[DatasetOfGlobal(lastMetaItem.global_idx)]
                     .augmented_indices_map[lastMetaItem.item.key])

\* C26: at every moment after the construction of a MetaAnnDataset, also after
\* a merged dataset's augmented indices have been shuffled, global_probs[k] is
\* the normalized weight of the logical region of the sample that
\* MetaAnnDataset.__getitem__(k) returns at that moment.
C26_ProbOfReturnedSample ==
    (metaConstructed = "ok" /\ lastMetaItem # NoMetaItem
       /\ lastMetaItem.item.err = "none") =>
      \A total \in {RatSum(FlatWeights)} :
         global_probs[lastMetaItem.global_idx + 1]
           = IF total.n > 0 THEN RatDiv(ReturnedWeight, total)
             ELSE Rat(1, TotalLen)

\* every merged dataset has its augmented indices in the order of construction
InConstructionOrder ==
    \A d \in 1..Len(datasets) :
    \A i \in 1..DatasetLen(datasets[d]) :
       datasets[d].augmented_indices[i] = datasets[d].anndata.var_names[i] \o <<":", "+">>

\* global_probs is the weight of the returned sample as long as no merged
\* dataset was reordered
C26_RightInConstructionOrder ==
    InConstructionOrder => C26_ProbOfReturnedSample

(***************************************************************************)
(* The augmented keys as regions (checked under Spec).                     *)
(***************************************************************************)
\* key is a stranded region with 0 <= start < end that the parser of
\* get_sequence and of _load_sequences_into_memory reads back as itself
WellFormedKey(key) ==
    \E p \in {ParseRegion(key)} :
        /\ MatchesStranded(key)
        /\ p.err = "none"
        /\ 0 <= p.start
        /\ p.start < p.end
        /\ StrandedRegion(p.chrom, p.start, p.end, p.strand) = key

\* C27: every augmented key the IndexManager produces, the deterministic-shift
\* variants included, is a well-formed stranded region with 0 <= start < end that
\* get_sequence parses back to the same chromosome, start, end and strand, also
\* for regions that start less than n_shifts * stride from the chromosome start.
C27_AugmentedKeysWellFormed ==
    Built => \A i \in 1..Len(augmented_indices) : WellFormedKey(augmented_indices[i])

\* without deterministic_shift every augmented key is well formed, and with it
\* every key whose region starts at least n_shifts * stride into the chromosome
C27_WellFormedWithRoom ==
    Built =>
        \A i \in 1..Len(augmented_indices) :
            \E p \in {ParseRegion(IF _check_strandedness(indices[origins[i]]).val
                                  THEN indices[origins[i]]
                                  ELSE indices[origins[i]] \o <<":", "+">>)} :
                (~deterministic_shift \/ p.start >= n_shifts * stride)
                    => WellFormedKey(augmented_indices[i])

(***************************************************************************)
(* The varp rows of the samples (checked under SpecVarp).                  *)
(***************************************************************************)
\* on-demand datasets constructed with varp_keys: a key of anndata.varp or a
\* key that anndata.varp lacks
InitVarp ==
    /\ DatasetArguments
    /\ ~in_memory
    /\ max_stochastic_shift = 0
    /\ ~random_reverse_complement
    /\ varp_keys \in {<<"contacts">>, <<"absent">>}
    /\ varp_data = EmptyDict
    /\ NoSwap
    /\ NoSecond

SpecVarp == InitVarp /\ [][Next]_vars

\* a __getitem__ call whose sequence and target were retrieved
VarpItem ==
    /\ Built
    /\ lastItem # NoItem
    /\ lastItem.err \in {"none", "IndexError"}
    /\ "contacts" \in DOMAIN varp_data

\* the row of anndata.varp["contacts"] that belongs to the logical region of the
\* sample at position idx
RowOfSample(idx) == Varp(adata)["contacts"][ColumnOf(indices[origins[idx + 1]])]

\* C28: for every position i, the varp field __getitem__(i) attaches is the row of
\* the varp matrix that belongs to the logical region of sample i, and the row
\* index is within the matrix: with always_reverse_complement and
\* deterministic_shift, with a split that excludes regions, and after shuffling.
C28_VarpRowOfSampleRegion ==
    VarpItem =>
        /\ lastItem.err = "none"
        /\ lastItem.varp["contacts"] = RowOfSample(lastItem.idx)

\* the samples are the regions of the anndata, in its order
SamplesAreColumns ==
    /\ ~always_reverse_complement
    /\ ~deterministic_shift
    /\ Len(indices) = Len(adata.var_names)
    /\ \A i \in 1..Len(origins) : origins[i] = i

\* the row is the region's own as long as the samples are the columns of the
\* anndata the constructor was given, in their order
C28_RightWhileSamplesAreColumns ==
    (VarpItem /\ SamplesAreColumns) =>
        /\ lastItem.err = "none"
        /\ lastItem.varp["contacts"] = RowOfSample(lastItem.idx)

\* outside that case the row index leaves the matrix or the row is another region's
C28_WrongRowWitness ==
    /\ VarpItem
    /\ lastItem.err = "none"
    /\ lastItem.varp["contacts"] # RowOfSample(lastItem.idx)

(***************************************************************************)
(* shuffle_indices concurrent with __getitem__: one thread shuffles the    *)
(* list store by store while another retrieves a sample.                   *)
(***************************************************************************)
\* the longest list that is shuffled while a sample is retrieved
MaxConcurrentLen == 3

\* the shuffled datasets: AnnDataLoader sets shuffle on the dataset
InitConcurrent ==
    /\ InitDataset
    /\ shuffle

\* shuffle_indices is called, whatever the other thread is doing
ShuffleStart ==
    /\ constructed = "ok"
    /\ shuffle
    /\ shuffle_i = 0
    /\ Len(augmented_indices) >= 2
    /\ Len(augmented_indices) <= MaxConcurrentLen
    /\ shuffle_i' = Len(augmented_indices) - 1
    /\ UNCHANGED <<loaderVars, adata, split, anndata, index_map, random_reverse_complement,
                   shuffle, augmented_indices, augmented_indices_map, origins,
                   augmented_probs, lastItem>>
    /\ UNCHANGED <<metaVars, generatorVars, complementVars, varpVars, swapVars, secondVars>>

\* x[i], x[j] = x[j], x[i]: both elements are read, then x[i] is stored
SwapFirstStore ==
    /\ shuffle_i > 0
    /\ swap_j = 0
    /\ \E j \in 0..shuffle_i :
         /\ swap_j' = j + 1
         /\ swap_tmp' = <<augmented_indices[shuffle_i + 1], origins[shuffle_i + 1]>>
         /\ augmented_indices' =
                [augmented_indices EXCEPT ![shuffle_i + 1] = augmented_indices[j + 1]]
         /\ origins' = [origins EXCEPT ![shuffle_i + 1] = origins[j + 1]]
    /\ UNCHANGED <<loaderVars, adata, split, anndata, index_map, random_reverse_complement,
                   shuffle, augmented_indices_map, augmented_probs, shuffle_i, lastItem>>
    /\ UNCHANGED <<metaVars, generatorVars, complementVars, varpVars, secondVars>>

\* then x[j] is stored, and the loop goes on to i - 1
SwapSecondStore ==
    /\ swap_j > 0
    /\ augmented_indices' = [augmented_indices EXCEPT ![swap_j] = swap_tmp[1]]
    /\ origins' = [origins EXCEPT ![swap_j] = swap_tmp[2]]
    /\ swap_j' = 0
    /\ swap_tmp' = <<>>
    /\ shuffle_i' = shuffle_i - 1
    /\ UNCHANGED <<loaderVars, adata, split, anndata, index_map, random_reverse_complement,
                   shuffle, augmented_indices_map, augmented_probs, lastItem>>
    /\ UNCHANGED <<metaVars, generatorVars, complementVars, varpVars, secondVars>>

\* a __getitem__ call that has read its key and has not returned yet
Running(idx, key) == [NoItem EXCEPT !.idx = idx, !.key = key, !.err = "running"]

\* __getitem__(idx) starts: augmented_index = self.index_manager.augmented_indices[idx]
ReadKey ==
    /\ constructed = "ok"
    /\ lastItem = NoItem
    /\ \E idx \in 0..(Len(augmented_indices) - 1) :
         lastItem' = Running(idx, augmented_indices[idx + 1])
    /\ UNCHANGED <<loaderVars, adata, split, anndata, index_map, random_reverse_complement,
                   shuffle, augmented_indices, augmented_indices_map, origins,
                   augmented_probs, shuffle_i>>
    /\ UNCHANGED <<metaVars, generatorVars, complementVars, varpVars, swapVars, secondVars>>

\* the rest of __getitem__, after any number of stores of the shuffle
Retrieve ==
    /\ lastItem.err = "running"
    /\ \E shift \in ItemShifts :
       \E coin \in ItemCoins :
          ItemDone(RetrievedItem(Self, lastItem.idx, lastItem.key, shift, coin))
    /\ UNCHANGED <<constructed, chromLen, chromsizes, max_stochastic_shift, in_memory,
                   always_reverse_complement, deterministic_shift, lastCall>>
    /\ UNCHANGED <<adata, split, random_reverse_complement, shuffle, shuffle_i>>
    /\ UNCHANGED <<metaVars, generatorVars, complementVars, varpVars, swapVars, secondVars>>

\* the caller takes the item
TakeItem ==
    /\ lastItem.err \notin {"nocall", "running"}
    /\ lastItem' = NoItem
    /\ fetches' = {}
    /\ UNCHANGED <<constructed, chromLen, chromsizes, max_stochastic_shift, in_memory,
                   always_reverse_complement, deterministic_shift, indices, sequences,
                   lastCall>>
    /\ UNCHANGED <<adata, split, anndata, index_map, random_reverse_complement, shuffle,
                   augmented_indices, augmented_indices_map, origins, augmented_probs,
                   shuffle_i>>
    /\ UNCHANGED <<metaVars, generatorVars, complementVars, varpVars, swapVars, secondVars>>

NextConcurrent ==
    \/ Construct
    \/ ShuffleStart
    \/ SwapFirstStore
    \/ SwapSecondStore
    \/ ReadKey
    \/ Retrieve
    \/ TakeItem

SpecConcurrent == InitConcurrent /\ [][NextConcurrent]_vars

\* the set of augmented keys: the keys of augmented_indices_map, which no
\* shuffle touches
KeySet == DOMAIN augmented_indices_map

\* C29: when shuffle_indices runs concurrently with __getitem__, every call still
\* returns a consistent pair: the key it read is a member of the key set, and the
\* sequence and the target are those of that one key (the sequence of the key, the
\* target of the region the map gives for the key), for every interleaving of the
\* stores of the shuffle with the steps of the retrieval.
C29_ConsistentUnderShuffle ==
    (Built /\ lastItem.err \notin {"nocall", "running"}) =>
        /\ lastItem.key \in KeySet
        /\ lastItem.err = "none" =>
             /\ lastItem.bases
                  = GetSequenceFrom(sequences, lastItem.key, "True", lastItem.shift).val
             /\ lastItem.sequence = one_hot_encode_sequence(lastItem.bases)
             /\ lastItem.y = _get_target(Self, augmented_indices_map[lastItem.key]).val

\* a call returned the sample of the key it had read although, by the time it
\* retrieved the sequence and the target, the shuffle had stored another key at
\* its position and was in the middle of a swap
C29_Witness ==
    /\ Built
    /\ lastItem.err = "none"
    /\ swap_j > 0
    /\ augmented_indices[lastItem.idx + 1] # lastItem.key
    /\ origins[lastItem.idx + 1] # index_map[augmented_indices_map[lastItem.key]] + 1

(***************************************************************************)
(* Two generators over one dataset: dataset() is called again while the    *)
(* generator of the call before is suspended at a yield.                   *)
(***************************************************************************)
\* the datasets that are iterated, without the random reverse complement
InitTwoPasses ==
    /\ InitGenerator
    /\ ~random_reverse_complement

\* dataset() is called a second time: another generator object over the same
\* AnnDataset, and so over the same IndexManager
SecondCall ==
    /\ constructed = "ok"
    /\ second = "none"
    /\ passes < MaxPasses
    /\ second' = "created"
    /\ passes' = passes + 1
    /\ UNCHANGED <<second_i, second_len, second_yielded>>
    /\ UNCHANGED <<generator, gen_i, gen_len, yielded, pass_shuffles>>
    /\ UNCHANGED <<loaderVars, datasetVars, metaVars, complementVars, varpVars, swapVars>>

\* yield self.__getitem__(i) in the second generator
SecondYield(i, item) ==
    /\ second_i' = i
    /\ lastItem' = item
    /\ fetches' = item.calls
    /\ second' = IF item.err = "none" THEN "suspended" ELSE item.err
    /\ second_yielded' = IF item.err = "none"
                         THEN Append(second_yielded, [idx |-> i, key |-> item.key])
                         ELSE second_yielded

\* the first next() on the second generator: with shuffle set it calls
\* shuffle_indices() on the list the first generator is iterating
SecondStart ==
    /\ second = "created"
    /\ second_len' = DatasetLen(Self)
    /\ IF DatasetLen(Self) = 0
       THEN /\ second' = "done"
            /\ UNCHANGED <<second_i, second_yielded, pass_shuffles, augmented_indices,
                           origins, lastItem, fetches>>
       ELSE IF shuffle
       THEN \E p \in Shuffles(DatasetLen(Self)) :
               /\ augmented_indices' = Permuted(augmented_indices, p)
               /\ origins' = Permuted(origins, p)
               /\ pass_shuffles' = pass_shuffles + 1
               /\ SecondYield(0, __getitem__([Self EXCEPT !.augmented_indices =
                                                  Permuted(augmented_indices, p)],
                                             0, 0, FALSE))
       ELSE /\ UNCHANGED <<augmented_indices, origins, pass_shuffles>>
            /\ SecondYield(0, __getitem__(Self, 0, 0, FALSE))
    /\ UNCHANGED <<constructed, chromLen, chromsizes, max_stochastic_shift, in_memory,
                   always_reverse_complement, deterministic_shift, indices, sequences,
                   lastCall>>
    /\ UNCHANGED <<adata, split, anndata, index_map, random_reverse_complement, shuffle,
                   augmented_indices_map, augmented_probs, shuffle_i>>
    /\ UNCHANGED <<generator, gen_i, gen_len, yielded, passes>>
    /\ UNCHANGED <<metaVars, complementVars, varpVars, swapVars>>

\* a later next() on the second generator
SecondResume ==
    /\ second = "suspended"
    /\ IF second_i + 1 >= second_len
       THEN /\ second' = "done"
            /\ UNCHANGED <<second_i, second_yielded, lastItem, fetches>>
       ELSE SecondYield(second_i + 1, __getitem__(Self, second_i + 1, 0, FALSE))
    /\ UNCHANGED <<constructed, chromLen, chromsizes, max_stochastic_shift, in_memory,
                   always_reverse_complement, deterministic_shift, indices, sequences,
                   lastCall>>
    /\ UNCHANGED <<adata, split, anndata, index_map, random_reverse_complement, shuffle,
                   augmented_indices, augmented_indices_map, origins, augmented_probs,
                   shuffle_i>>
    /\ UNCHANGED <<second_len, generatorVars, metaVars, complementVars, varpVars, swapVars>>

NextTwoPasses ==
    \/ Construct
    \/ Call
    \/ GeneratorStart
    \/ GeneratorResume
    \/ SecondCall
    \/ SecondStart
    \/ SecondResume

SpecTwoPasses == InitTwoPasses /\ [][NextTwoPasses]_vars

\* the keys a pass yielded, in the order it yielded them
YieldedKeys(y) == [k \in 1..Len(y) |-> y[k].key]

\* a pass that is over yielded the augmented keys, each as often as the list
\* holds it; a pass in progress yielded no key more often than that
EachKeyOnce(state, y) ==
    /\ state = "done" => KeyBag(YieldedKeys(y)) = KeyBag(augmented_indices)
    /\ state = "suspended" =>
          \A k \in 1..Len(y) :
              Count(YieldedKeys(y), y[k].key) <= Count(augmented_indices, y[k].key)

\* C30: every pass of the generator yields each augmented sample exactly once
\* (the keys it yields are a permutation of augmented_indices), also with shuffle
\* set and a second pass over the same dataset started while the first is still
\* in progress.
C30_EveryPassYieldsEachKeyOnce ==
    /\ EachKeyOnce(generator, yielded)
    /\ EachKeyOnce(second, second_yielded)

\* as long as no second generator has run over the dataset, and in every case
\* without shuffle, each pass yields each key once
C30_OnceWithoutOverlap ==
    (second \in {"none", "created"} \/ ~shuffle) => C30_EveryPassYieldsEachKeyOnce

====
